---- MODULE Spec2Model ----
(***************************************************************************)
(* A model of the agent-network event pipeline:                            *)
(*   webhook/signature.py   verify_signature (HMAC-SHA256 check)           *)
(*   webhook/consumer.py    POST /webhook handler (receive_webhook)        *)
(*   messaging/publisher.py RabbitPublisher (connect / publish / close)    *)
(*   webhook/registry.py    WebhookRegistry.signup (login/cleanup/register)*)
(*   api/client.py          LightTasksClient.request                       *)
(*   messaging/worker.py    _on_message / process_message / start_worker   *)
(*   startup.py             main (wait for API, signup, connect, serve)    *)
(*   worker_main.py         one-shot run, long-running consumer and exit   *)
(*   api/service.py         LightTasksService (comment, move to done)      *)
(*                                                                         *)
(* Python values are modelled as follows.                                  *)
(*   Optional[T]  a set with at most one element; None is {}.              *)
(*   str / bytes  a secret is the sequence of its UTF-8 bytes (small       *)
(*                naturals); other strings are TLA+ strings.               *)
(*   JSON value   a record [t, s, o]: t its type, s its text when it is a  *)
(*                string, o its members when it is an object.              *)
(*   an exception an outcome string naming the exception class.            *)
(***************************************************************************)
EXTENDS Integers, Sequences, FiniteSets, TLC

VARIABLES
    \* ---- webhook receiver (webhook/consumer.py) ----
    webhook_secret,   \* app.state.webhook_secret : Optional[str]
    publisher,        \* app.state.publisher : TRUE when a RabbitPublisher is attached
    pub_connection,   \* RabbitPublisher._connection : "none" | "open" | "closed"
    pub_exchange,     \* RabbitPublisher._exchange is not None
    connect_returned, \* a call of RabbitPublisher.connect() has returned normally
    exchange_msgs,    \* messages the broker exchange has accepted, in order
    request,          \* the last POST /webhook request handled
    response,         \* the response it got
    \* ---- signature verifier exercised on its own (webhook/signature.py) ----
    sig_payload, sig_secret, sig_other, sig_same, sig_cross,
    \* ---- webhook registration (webhook/registry.py, api/client.py) ----
    registrations,    \* the registrations the task API holds: [id, url, secret]
    next_id,          \* the id the task API gives the next registration
    api_token,        \* LightTasksClient._token : Optional[str]
    pc,               \* where signup() is: "idle", "cleanup", "delete",
                      \* "register", "returned" or "raised"
    webhooks,         \* the listing _cleanup_old_webhooks got from GET /webhooks
    todo,             \* the part of that listing its loop has not visited yet
    calls,            \* the task-API calls of the current signup run, in order
    cleanup_failed,   \* _cleanup_old_webhooks caught an exception in this run
    result,           \* what signup() returned : Optional[secret]
    raised,           \* what signup() raised ("none" when it did not)
    runs,             \* number of signup() runs started
    completed,        \* number of signup() runs that returned a secret
    \* ---- broker and workers (messaging/worker.py) ----
    agent_api_key,    \* settings.agent_api_key is non-empty
    routed,           \* every message sent to the exchange, in order: the
                      \* position of a message is its identity
    queues,           \* the declared queues: name -> ids of its ready messages
    consumers,        \* worker -> [running, prefetch, queue] of its consumer
    unacked,          \* worker -> ids delivered to it and not yet settled
    handled,          \* what _on_message did with each delivery, in order
    \* ---- startup orchestrator (startup.py) ----
    max_retries,      \* settings.max_retries
    stage,            \* where main() is: "wait", "signup", "app", "serving",
                      \* "stopped" or "exited"
    health_requests,  \* number of GET /health requests _wait_for_api made
    health_ok,        \* the last of them was answered 2xx
    exit_code,        \* how the process ended : Optional[int]
    \* ---- worker failures and the task API's webhooks ----
    crashes,          \* number of worker processes that ended so far
    outbox,           \* webhooks the task API emitted, in order, each POSTed or not
    \* ---- one-shot worker process (worker_main.py) ----
    task_payload,     \* the TASK_PAYLOAD it was started with : Optional
    oneshot_exit,     \* its exit code : Optional[int]
    oneshot_did,      \* what its process_message call did : Optional
    \* ---- receiver processes sharing one callback URL (startup.py) ----
    peers             \* for each of them: where its main() is, and its secret

recvVars == <<webhook_secret, publisher, pub_connection, pub_exchange,
              connect_returned, exchange_msgs, request, response>>
sigVars  == <<sig_payload, sig_secret, sig_other, sig_same, sig_cross>>
regVars  == <<registrations, next_id, api_token, pc, webhooks, todo, calls,
              cleanup_failed, result, raised, runs, completed>>
wrkVars  == <<agent_api_key, routed, queues, consumers, unacked, handled>>
mainVars == <<max_retries, stage, health_requests, health_ok, exit_code>>
envVars  == <<crashes, outbox>>
oneVars  == <<task_payload, oneshot_exit, oneshot_did>>
peerVars == <<peers>>
vars     == <<recvVars, sigVars, regVars, wrkVars, mainVars, envVars, oneVars, peerVars>>

\* what an action of one component leaves alone
notRecv == <<sigVars, regVars, wrkVars, mainVars, envVars, oneVars, peerVars>>
notSig  == <<recvVars, regVars, wrkVars, mainVars, envVars, oneVars, peerVars>>
notReg  == <<recvVars, sigVars, wrkVars, mainVars, envVars, oneVars, peerVars>>
notWrk  == <<recvVars, sigVars, regVars, mainVars, envVars, oneVars, peerVars>>

None == {}
Some(x) == {x}
Value(opt) == CHOOSE x \in opt : TRUE

-----------------------------------------------------------------------------
(* Bounds of the model. *)

\* the broker keeps at most this many accepted messages in the model
MaxMessages == 1
\* signup() is run at most this many times
MaxRuns == 2
\* other clients of the task API register at most this many webhooks
MaxOthers == 1
\* secrets are byte strings of at most this length
MaxSecretLen == 2
\* byte values 0 .. MaxByte appear in secrets
MaxByte == 2
\* at most this many worker processes end (crash or are terminated)
MaxCrashes == 1
MaxPublished == 4
\* at most this many messages are sent to the exchange the workers consume from
MaxRouted == 2

\* channel.set_qos(prefetch_count=1)
PrefetchCount == 1

-----------------------------------------------------------------------------
(* JSON values. *)

EmptyDict == [k \in {} |-> ""]

JStr(s)  == [t |-> "str", s |-> s, o |-> EmptyDict]
JList    == [t |-> "list", s |-> "", o |-> EmptyDict]
JDict(o) == [t |-> "object", s |-> "", o |-> o]

\* dict.get(key, default)
Get(d, key, default) == IF key \in DOMAIN d THEN d[key] ELSE default

\* A parsed top-level payload: an object with members f, or a JSON array.
PObject(f) == [t |-> "object", f |-> f]
PArray     == [t |-> "list", f |-> EmptyDict]

DataT1 == [id |-> "t1", description |-> "x"]

EventValues == {JStr("task.created"), JStr("user.created"), JList}
DataValues  == {JDict(DataT1)}

Objects ==
    {[k \in {"event", "data"} |-> IF k = "event" THEN e ELSE d] :
        e \in EventValues, d \in DataValues}
    \cup {[k \in {"event"} |-> e] : e \in {JStr("task.created")}}
    \cup {[k \in {"data"} |-> d] : d \in DataValues}

Payloads == {PArray} \cup {PObject(f) : f \in Objects}

\* A raw request body (bytes).  utf8: the bytes decode as UTF-8; json: the text
\* is a JSON document; ws: which of two byte-wise different renderings of the
\* same document it is (insignificant whitespace); v: the document.
Raw(utf8, json, ws, v) == [utf8 |-> utf8, json |-> json, ws |-> ws, v |-> v]

BadUtf8Body == Raw(FALSE, FALSE, 0, PArray)     \* e.g. b"\xff"
NotJsonBody == Raw(TRUE, FALSE, 0, PArray)      \* e.g. b"not json"
ScenarioA   == PObject([event |-> JStr("task.created"), data |-> JDict(DataT1)])

RawBodies ==
    {BadUtf8Body, NotJsonBody}
    \cup {Raw(TRUE, TRUE, 0, p) : p \in Payloads}
    \cup {Raw(TRUE, TRUE, 1, ScenarioA)}

\* json.loads(raw_body): the document, or the exception it raises.
\* Bytes that are not UTF-8 raise UnicodeDecodeError (a ValueError that is not
\* a JSONDecodeError); text that is not JSON raises JSONDecodeError.
json_loads(raw) ==
    IF ~raw.utf8 THEN [exc |-> "UnicodeDecodeError", v |-> PArray]
    ELSE IF ~raw.json THEN [exc |-> "JSONDecodeError", v |-> PArray]
    ELSE [exc |-> "none", v |-> raw.v]

\* json.dumps(body, default=str).encode(): the canonical rendering of a document.
json_dumps(v) == Raw(TRUE, TRUE, 0, v)

-----------------------------------------------------------------------------
(* Signature verifier: webhook/signature.py *)

\* block size in bytes of SHA-256, the digest hmac.new is given
BlockSize == 64

Bytes == 0..MaxByte
Secrets == UNION {[1..n -> Bytes] : n \in 0..MaxSecretLen}

\* key without its trailing zero bytes
RECURSIVE StripZeros(_)
StripZeros(key) ==
    IF key # <<>> /\ key[Len(key)] = 0
    THEN StripZeros(SubSeq(key, 1, Len(key) - 1))
    ELSE key

\* The key block HMAC derives from a key (RFC 2104): a key longer than the block
\* is replaced by its hash (kept abstract: the marker 256 followed by the key),
\* any other key is padded with zero bytes to the block size.  A padded block
\* is represented by the bytes before its trailing zeros, which determine it.
hmac_key_block(key) ==
    IF Len(key) > BlockSize THEN <<256>> \o key
    ELSE StripZeros(key)

\* hmac.new(key, msg, hashlib.sha256).hexdigest(): the digest is kept abstract as
\* the pair it is computed from, so two digests are equal exactly when key block
\* and message are (no collisions).
hmac_sha256_hexdigest(key, msg) == [k |-> hmac_key_block(key), m |-> msg]

\* A str holding a header value: prefix and digest when it has the form
\* "sha256=<hex>", ascii FALSE when it holds a character outside ASCII.
Str(prefix, digest, ascii) == [prefix |-> prefix, digest |-> digest, ascii |-> ascii]
NoDigest    == [k |-> <<>>, m |-> NotJsonBody]
EmptyStr    == Str("", NoDigest, TRUE)                 \* ""
NonAsciiStr == Str("sha256=", NoDigest, FALSE)         \* e.g. "sha256=\xe9"
GarbageStr  == Str("sha256=", NoDigest, TRUE)          \* e.g. "sha256=00"

\* hmac.compare_digest(a, b) on two str: raises TypeError when either holds a
\* non-ASCII character, otherwise tells whether they are equal.
compare_digest(a, b) ==
    IF ~a.ascii \/ ~b.ascii THEN "TypeError"
    ELSE IF a = b THEN "True" ELSE "False"

\* verify_signature compared against the digest the header itself carries
\* instead of the one computed from payload and secret.
verify_signature_unkeyed(payload, secret, received_signature) ==
    compare_digest(Str("sha256=", received_signature.digest, TRUE), received_signature)

\* verify_signature(payload, secret, received_signature): "True", "False", or
\* the exception it raises.
verify_signature(payload, secret, received_signature) ==
    LET expected      == hmac_sha256_hexdigest(secret, payload)
        expected_full == Str("sha256=", expected, TRUE)
    IN  compare_digest(expected_full, received_signature)

\* The signature the task API sends for payload P under secret S:
\* "sha256=" followed by the hex HMAC-SHA256 of P under key S.
sign(P, S) == Str("sha256=", hmac_sha256_hexdigest(S, P), TRUE)

SigInit ==
    /\ sig_payload \in RawBodies
    /\ sig_secret \in Secrets
    /\ sig_other \in Secrets
    /\ sig_same = "unset"
    /\ sig_cross = "unset"

SigIdle ==
    /\ sig_payload = NotJsonBody
    /\ sig_secret = <<>>
    /\ sig_other = <<>>
    /\ sig_same = "unset"
    /\ sig_cross = "unset"

\* Verify the signatures made under sig_secret and under sig_other against
\* sig_payload and sig_secret.
Verify ==
    /\ sig_same = "unset"
    /\ sig_same' = verify_signature(sig_payload, sig_secret, sign(sig_payload, sig_secret))
    /\ sig_cross' = verify_signature(sig_payload, sig_secret, sign(sig_payload, sig_other))
    /\ UNCHANGED <<sig_payload, sig_secret, sig_other>>
    /\ UNCHANGED notSig

-----------------------------------------------------------------------------
(* Broker publisher: messaging/publisher.py *)

\* RabbitPublisher.connect(), which raises at step failed_at ("none": it returns).
\* _connection is set once connect_robust returned, _exchange once
\* declare_exchange returned; the queue is declared and bound after that.
connect_steps(failed_at) ==
    /\ publisher
    /\ pub_connection = "none"
    /\ pub_connection' = IF failed_at = "connect_robust" THEN "none" ELSE "open"
    /\ pub_exchange' = (failed_at \in {"declare_queue", "none"})
    /\ connect_returned' = (failed_at = "none")
    /\ UNCHANGED <<webhook_secret, publisher, exchange_msgs, request, response>>

connect(failed_at) ==
    /\ connect_steps(failed_at)
    /\ UNCHANGED notRecv

\* RabbitPublisher.close(): closes the connection if there is an open one;
\* _exchange keeps its value.
close ==
    /\ publisher
    /\ pub_connection = "open"
    /\ pub_connection' = "closed"
    /\ UNCHANGED <<webhook_secret, publisher, pub_exchange, connect_returned,
                   exchange_msgs, request, response>>
    /\ UNCHANGED notRecv

\* RabbitPublisher.publish(routing_key, body) when the broker accepts the
\* message (broker_ok) or not: the exception raised ("none": it returned) and
\* the messages the exchange holds afterwards.
publish(routing_key, body, broker_ok) ==
    IF ~pub_exchange
    THEN [exc |-> "RuntimeError", msgs |-> exchange_msgs]
    ELSE LET message == [routing_key |-> routing_key,
                         body |-> json_dumps(body),
                         content_type |-> "application/json",
                         delivery_mode |-> "PERSISTENT"]
         IN  IF pub_connection = "open" /\ broker_ok
             THEN [exc |-> "none", msgs |-> Append(exchange_msgs, message)]
             ELSE [exc |-> "AMQPError", msgs |-> exchange_msgs]

-----------------------------------------------------------------------------
(* Webhook receiver: webhook/consumer.py *)

TASK_EVENTS == {"task.created", "task.updated", "task.deleted", "task.moved",
                "task.commented", "task.feedback_added"}

\* truth value of an Optional[str] secret / header
TruthySecret(opt) == opt # None /\ Value(opt) # <<>>
TruthyStr(opt)    == opt # None /\ Value(opt) # EmptyStr
TruthyText(opt)   == opt # None /\ Value(opt) # ""

\* The signature check of receive_webhook: "ok" when the request goes on to
\* parsing, "401" for an HTTPException(401), or the exception that escapes.
check_signature(raw_body, x_webhook_signature) ==
    IF TruthySecret(webhook_secret)
    THEN IF ~TruthyStr(x_webhook_signature) THEN "401"
         ELSE LET valid == verify_signature(raw_body, Value(webhook_secret),
                                            Value(x_webhook_signature))
              IN  CASE valid = "True"  -> "ok"
                    [] valid = "False" -> "401"
                    [] OTHER           -> valid
    ELSE "ok"

\* the event kind taken from the header before the body
event_of_header_first(payload, x_webhook_event) ==
    IF TruthyText(x_webhook_event) THEN JStr(Value(x_webhook_event))
    ELSE Get(payload.f, "event", JStr("unknown"))

\* event = payload.get("event", x_webhook_event or "unknown")
event_of(payload, x_webhook_event) ==
    Get(payload.f, "event",
        JStr(IF TruthyText(x_webhook_event) THEN Value(x_webhook_event) ELSE "unknown"))

\* data = payload.get("data", {})
data_of(payload) == Get(payload.f, "data", JDict(EmptyDict))

\* A response: the HTTP status, the exception that produced it ("none" for a
\* normal return, "HTTPException" for a raise of the handler, otherwise the
\* unhandled exception the server turns into a 500), and the messages the
\* request got published.
Response(status, exc, published) ==
    [status |-> status, exc |-> exc, published |-> published]

\* `pub and event in _TASK_EVENTS` and the publish that follows it
forward(payload, event, broker_ok) ==
    IF ~publisher THEN Response(200, "none", <<>>)
    ELSE IF event.t # "str" THEN Response(500, "TypeError", <<>>)  \* unhashable
    ELSE IF event.s \notin TASK_EVENTS THEN Response(200, "none", <<>>)
    ELSE LET sent == publish(event.s, payload, broker_ok)
         IN  IF sent.exc = "none"
             THEN Response(200, "none", <<sent.msgs[Len(sent.msgs)]>>)
             ELSE Response(500, sent.exc, <<>>)

\* The response of POST /webhook.
respond(raw_body, x_webhook_signature, x_webhook_event, broker_ok) ==
    LET checked == check_signature(raw_body, x_webhook_signature)
        parsed  == json_loads(raw_body)
    IN  IF checked = "401" THEN Response(401, "HTTPException", <<>>)
        ELSE IF checked # "ok" THEN Response(500, checked, <<>>)
        ELSE IF parsed.exc = "JSONDecodeError" THEN Response(400, "HTTPException", <<>>)
        ELSE IF parsed.exc # "none" THEN Response(500, parsed.exc, <<>>)
        ELSE IF parsed.v.t # "object" THEN Response(500, "AttributeError", <<>>)
        ELSE forward(parsed.v, event_of(parsed.v, x_webhook_event), broker_ok)

\* POST /webhook
receive_webhook(raw_body, x_webhook_signature, x_webhook_event, broker_ok) ==
    LET res == respond(raw_body, x_webhook_signature, x_webhook_event, broker_ok)
    IN  /\ Len(exchange_msgs) < MaxMessages
        /\ request' = Some([raw_body |-> raw_body,
                            x_webhook_signature |-> x_webhook_signature,
                            x_webhook_event |-> x_webhook_event])
        /\ response' = Some(res)
        /\ exchange_msgs' = exchange_msgs \o res.published
        /\ UNCHANGED <<webhook_secret, publisher, pub_connection, pub_exchange,
                       connect_returned>>
        /\ UNCHANGED notRecv

\* The secrets a receiver is created with, and the keys senders sign with.
ReceiverSecrets == {None, Some(<<>>), Some(<<1>>), Some(<<2>>)}
SenderSecrets   == {<<1>>, <<1, 0>>, <<2>>}

SignatureHeaders(raw_body) ==
    {None, Some(EmptyStr), Some(GarbageStr), Some(NonAsciiStr),
     Some(sign(NotJsonBody, <<1>>))}
    \cup {Some(sign(raw_body, s)) : s \in SenderSecrets}

EventHeaders == {None, Some(""), Some("task.created")}

\* create_consumer_app(secret=..., publisher=...)
RecvInit ==
    /\ webhook_secret \in ReceiverSecrets
    /\ publisher \in BOOLEAN
    /\ pub_connection = "none"
    /\ pub_exchange = FALSE
    /\ connect_returned = FALSE
    /\ exchange_msgs = <<>>
    /\ request = None
    /\ response = None

RecvIdle ==
    /\ webhook_secret = None
    /\ publisher = FALSE
    /\ pub_connection = "none"
    /\ pub_exchange = FALSE
    /\ connect_returned = FALSE
    /\ exchange_msgs = <<>>
    /\ request = None
    /\ response = None

ConnectSteps == {"none", "connect_robust", "declare_exchange", "declare_queue"}

Next ==
    \/ \E failed_at \in ConnectSteps : connect(failed_at)
    \/ close
    \/ \E raw_body \in RawBodies, x_webhook_event \in EventHeaders, broker_ok \in BOOLEAN :
         \E x_webhook_signature \in SignatureHeaders(raw_body) :
            receive_webhook(raw_body, x_webhook_signature, x_webhook_event, broker_ok)

-----------------------------------------------------------------------------
(* Webhook registration: webhook/registry.py over api/client.py *)

\* settings.webhook_callback_url, and a URL that is not it
Callback == "http://agent-network:9000/webhook"
OtherUrl == "http://agent-network:9000/webhook/"

\* A registration at the task API; the API draws a secret of its own for each.
Reg(id, url) == [id |-> id, url |-> url, secret |-> <<id>>]

InitialRegs == {Reg(1, Callback), Reg(2, OtherUrl), Reg(3, Callback)}
FirstFreeId == Cardinality(InitialRegs) + 1

\* the registrations of S in the order of their ids
RECURSIVE ById(_)
ById(S) ==
    IF S = {} THEN <<>>
    ELSE LET first == CHOOSE r \in S : \A q \in S : r.id <= q.id
         IN  <<first>> \o ById(S \ {first})

\* LightTasksClient.request: the outcomes of a call to the task API.  "ok" is a
\* 2xx response; "401" and "500" make raise_for_status raise an
\* HTTPStatusError; "ConnectError" is raised by httpx.request itself.  A call
\* that carries no bearer token is rejected by the API with 401.
Failures == {"401", "500", "ConnectError"}
request_outcomes(needs_token) ==
    IF needs_token /\ api_token = None THEN {"401"} ELSE {"ok"} \cup Failures

Call(op, id, outcome) == [op |-> op, id |-> id, outcome |-> outcome]

\* the test of the loop taking every webhook of the listing, and taking none
is_stale_any(wh, callback) == TRUE
is_stale_never(wh, callback) == FALSE

\* `wh.get("url") == callback`
is_stale(wh, callback) == wh.url = callback

\* The loop of _cleanup_old_webhooks runs over the listing without a call to the
\* API until it meets a webhook to delete: what is left of `listing` from there.
RECURSIVE next_stale(_, _)
next_stale(listing, callback) ==
    IF listing = <<>> \/ is_stale(Head(listing), callback) THEN listing
    ELSE next_stale(Tail(listing), callback)

\* pc after the loop moved on to `rest`
after_visit(rest) == IF rest = <<>> THEN "register" ELSE "delete"

\* signup() going on to the cleanup whatever the login call answered
login_unchecked(outcome) ==
    /\ pc \in {"idle", "returned", "raised"}
    /\ runs < MaxRuns
    /\ runs' = runs + 1
    /\ calls' = <<Call("POST /auth/login", 0, outcome)>>
    /\ webhooks' = <<>>
    /\ todo' = <<>>
    /\ cleanup_failed' = FALSE
    /\ result' = None
    /\ api_token' = IF outcome = "ok" THEN Some("jwt") ELSE api_token
    /\ pc' = "cleanup"
    /\ raised' = "none"
    /\ UNCHANGED <<registrations, next_id, completed>>
    /\ UNCHANGED notReg

\* signup() is called and runs _login(): POST /auth/login.  A failure is raised
\* out of signup(); success stores the token.
login(outcome) ==
    /\ pc \in {"idle", "returned", "raised"}
    /\ runs < MaxRuns
    /\ runs' = runs + 1
    /\ calls' = <<Call("POST /auth/login", 0, outcome)>>
    /\ webhooks' = <<>>
    /\ todo' = <<>>
    /\ cleanup_failed' = FALSE
    /\ result' = None
    /\ IF outcome = "ok"
       THEN /\ api_token' = Some("jwt")
            /\ pc' = "cleanup"
            /\ raised' = "none"
       ELSE /\ pc' = "raised"
            /\ raised' = outcome
            /\ UNCHANGED api_token
    /\ UNCHANGED <<registrations, next_id, completed>>
    /\ UNCHANGED notReg

\* _cleanup_old_webhooks() without its try/except: a failed listing ends signup()
cleanup_list_fatal(outcome) ==
    /\ pc = "cleanup"
    /\ calls' = Append(calls, Call("GET /webhooks", 0, outcome))
    /\ IF outcome = "ok"
       THEN LET listing == ById(registrations)
                rest    == next_stale(listing, Callback)
            IN  /\ webhooks' = listing
                /\ todo' = rest
                /\ pc' = after_visit(rest)
                /\ UNCHANGED <<cleanup_failed, raised>>
       ELSE /\ cleanup_failed' = TRUE
            /\ pc' = "raised"
            /\ raised' = outcome
            /\ UNCHANGED <<webhooks, todo>>
    /\ UNCHANGED <<registrations, next_id, api_token, result, runs, completed>>
    /\ UNCHANGED notReg

\* _cleanup_old_webhooks() up to its first DELETE: GET /webhooks, then the loop
\* skips the webhooks of other URLs.  A failure is caught and logged.
cleanup_list(outcome) ==
    /\ pc = "cleanup"
    /\ calls' = Append(calls, Call("GET /webhooks", 0, outcome))
    /\ IF outcome = "ok"
       THEN LET listing == ById(registrations)
                rest    == next_stale(listing, Callback)
            IN  /\ webhooks' = listing
                /\ todo' = rest
                /\ pc' = after_visit(rest)
                /\ UNCHANGED cleanup_failed
       ELSE /\ cleanup_failed' = TRUE
            /\ pc' = "register"
            /\ UNCHANGED <<webhooks, todo>>
    /\ UNCHANGED <<registrations, next_id, api_token, result, raised, runs,
                   completed>>
    /\ UNCHANGED notReg

\* One DELETE /webhooks/{id} of the loop and the iterations up to the next one.
\* A failure is caught and logged, and ends the loop.
cleanup_delete(outcome) ==
    LET wh   == Head(todo)
        rest == next_stale(Tail(todo), Callback)
        out  == IF outcome = "ok" /\ wh \notin registrations THEN "404" ELSE outcome
    IN  /\ pc = "delete"
        /\ calls' = Append(calls, Call("DELETE /webhooks/{id}", wh.id, out))
        /\ IF out = "ok"
           THEN /\ registrations' = registrations \ {wh}
                /\ todo' = rest
                /\ pc' = after_visit(rest)
                /\ UNCHANGED cleanup_failed
           ELSE /\ cleanup_failed' = TRUE
                /\ pc' = "register"
                /\ UNCHANGED <<registrations, todo>>
        /\ UNCHANGED <<next_id, api_token, webhooks, result, raised, runs,
                       completed>>
        /\ UNCHANGED notReg

\* _register(): POST /webhooks; signup() returns the secret of the response.
\* A failure is raised out of signup().
register(outcome) ==
    /\ pc = "register"
    /\ calls' = Append(calls, Call("POST /webhooks",
                                   IF outcome = "ok" THEN next_id ELSE 0, outcome))
    /\ IF outcome = "ok"
       THEN /\ registrations' = registrations \cup {Reg(next_id, Callback)}
            /\ next_id' = next_id + 1
            /\ result' = Some(Reg(next_id, Callback).secret)
            /\ pc' = "returned"
            /\ completed' = completed + 1
            /\ UNCHANGED raised
       ELSE /\ pc' = "raised"
            /\ raised' = outcome
            /\ UNCHANGED <<registrations, next_id, result, completed>>
    /\ UNCHANGED <<api_token, webhooks, todo, cleanup_failed, runs>>
    /\ UNCHANGED notReg

\* Another client of the task API registers a webhook for its own URL.
other_registers ==
    /\ Cardinality({r \in registrations : r.id >= FirstFreeId /\ r.url # Callback})
         < MaxOthers
    /\ registrations' = registrations \cup {Reg(next_id, OtherUrl)}
    /\ next_id' = next_id + 1
    /\ UNCHANGED <<api_token, pc, webhooks, todo, calls, cleanup_failed, result,
                   raised, runs, completed>>
    /\ UNCHANGED notReg

RegInit ==
    /\ registrations \in SUBSET InitialRegs
    /\ next_id = FirstFreeId
    /\ api_token = None
    /\ pc = "idle"
    /\ webhooks = <<>>
    /\ todo = <<>>
    /\ calls = <<>>
    /\ cleanup_failed = FALSE
    /\ result = None
    /\ raised = "none"
    /\ runs = 0
    /\ completed = 0

RegIdle ==
    /\ registrations = {}
    /\ next_id = FirstFreeId
    /\ api_token = None
    /\ pc = "idle"
    /\ webhooks = <<>>
    /\ todo = <<>>
    /\ calls = <<>>
    /\ cleanup_failed = FALSE
    /\ result = None
    /\ raised = "none"
    /\ runs = 0
    /\ completed = 0

-----------------------------------------------------------------------------
(* Broker consumer: messaging/worker.py *)

\* The Processing Function execute_worker_agent(description): it returns a
\* textual work product for the description, or fails with an exception.
execute_worker_agent(description, ok) ==
    IF ok THEN [exc |-> "none", text |-> <<"work on", description>>]
    ELSE [exc |-> "Exception", text |-> <<>>]

\* _get_service(): LightTasksService.from_settings raises RuntimeError when
\* AGENT_API_KEY is not set; nothing is cached then.
get_service == IF agent_api_key THEN "none" ELSE "RuntimeError"

\* data.get("id") or data.get("task_id"), as an Optional: None when the
\* result is falsy (absent or empty)
task_id_of(data) ==
    IF Get(data.o, "id", "") # "" THEN Some(data.o["id"])
    ELSE IF Get(data.o, "task_id", "") # "" THEN Some(data.o["task_id"])
    ELSE None

\* LightTasksService.add_comment / mark_task_done as task-API calls
add_comment(task_id, content, ok) ==
    [op |-> "POST /tasks/{id}/comments", task |-> task_id, content |-> content,
     ok |-> ok]
mark_task_done(task_id, ok) ==
    [op |-> "POST /tasks/{id}/move", task |-> task_id, table |-> "done", ok |-> ok]

\* what a run of process_message did: the exception it raised ("none": it
\* returned), the invocations of the Processing Function (the description it
\* was given and the exception it raised, "none" when it returned), and
\* the task-API calls made
Did(exc, invoked, api_calls) ==
    [exc |-> exc, invoked |-> invoked, api_calls |-> api_calls]

\* process_message without its check of the event kind
process_message_any_event(event, data, pf_ok, comment_ok, move_ok) ==
    IF data.t # "object" THEN Did("AttributeError", <<>>, <<>>)
    ELSE IF task_id_of(data) = None THEN Did("none", <<>>, <<>>)
    ELSE IF get_service # "none" THEN Did(get_service, <<>>, <<>>)
    ELSE LET task_id     == Value(task_id_of(data))
             description == Get(data.o, "description", "")
             task        == execute_worker_agent(description, pf_ok)
             invocation  == [description |-> description, exc |-> task.exc]
             comment     == add_comment(task_id, task.text, comment_ok)
         IN  IF task.exc # "none" THEN Did("none", <<invocation>>, <<>>)
             ELSE IF ~comment_ok THEN Did("none", <<invocation>>, <<comment>>)
             ELSE Did("none", <<invocation>>,
                      <<comment, mark_task_done(task_id, move_ok)>>)

\* process_message without its check of the task id
process_message_no_id_check(event, data, pf_ok, comment_ok, move_ok) ==
    IF data.t # "object" THEN Did("AttributeError", <<>>, <<>>)
    ELSE IF event # JStr("task.created") THEN Did("none", <<>>, <<>>)
    ELSE IF get_service # "none" THEN Did(get_service, <<>>, <<>>)
    ELSE LET task_id     == IF task_id_of(data) = None THEN "None"
                            ELSE Value(task_id_of(data))
             description == Get(data.o, "description", "")
             task        == execute_worker_agent(description, pf_ok)
             invocation  == [description |-> description, exc |-> task.exc]
             comment     == add_comment(task_id, task.text, comment_ok)
         IN  IF task.exc # "none" THEN Did("none", <<invocation>>, <<>>)
             ELSE IF ~comment_ok THEN Did("none", <<invocation>>, <<comment>>)
             ELSE Did("none", <<invocation>>,
                      <<comment, mark_task_done(task_id, move_ok)>>)

\* process_message moving the task before it comments on it
process_message_move_first(event, data, pf_ok, comment_ok, move_ok) ==
    IF data.t # "object" THEN Did("AttributeError", <<>>, <<>>)
    ELSE IF event # JStr("task.created") THEN Did("none", <<>>, <<>>)
    ELSE IF task_id_of(data) = None THEN Did("none", <<>>, <<>>)
    ELSE IF get_service # "none" THEN Did(get_service, <<>>, <<>>)
    ELSE LET task_id     == Value(task_id_of(data))
             description == Get(data.o, "description", "")
             task        == execute_worker_agent(description, pf_ok)
             invocation  == [description |-> description, exc |-> task.exc]
             comment     == add_comment(task_id, task.text, comment_ok)
         IN  IF task.exc # "none" THEN Did("none", <<invocation>>, <<>>)
             ELSE IF ~move_ok THEN Did("none", <<invocation>>,
                                       <<mark_task_done(task_id, move_ok)>>)
             ELSE Did("none", <<invocation>>,
                      <<mark_task_done(task_id, move_ok), comment>>)

\* process_message with a try block of its own around each step
process_message_try_each(event, data, pf_ok, comment_ok, move_ok) ==
    IF data.t # "object" THEN Did("AttributeError", <<>>, <<>>)
    ELSE IF event # JStr("task.created") THEN Did("none", <<>>, <<>>)
    ELSE IF task_id_of(data) = None THEN Did("none", <<>>, <<>>)
    ELSE IF get_service # "none" THEN Did(get_service, <<>>, <<>>)
    ELSE LET task_id     == Value(task_id_of(data))
             description == Get(data.o, "description", "")
             task        == execute_worker_agent(description, pf_ok)
             invocation  == [description |-> description, exc |-> task.exc]
             comment     == add_comment(task_id, task.text, comment_ok)
         IN  Did("none", <<invocation>>,
                 <<comment, mark_task_done(task_id, move_ok)>>)

\* process_message(event, data); pf_ok, comment_ok, move_ok say whether the
\* Processing Function and the two task-API calls succeed when they are made.
process_message(event, data, pf_ok, comment_ok, move_ok) ==
    IF data.t # "object" THEN Did("AttributeError", <<>>, <<>>)
    ELSE IF event # JStr("task.created") THEN Did("none", <<>>, <<>>)
    ELSE IF task_id_of(data) = None THEN Did("none", <<>>, <<>>)
    ELSE IF get_service # "none" THEN Did(get_service, <<>>, <<>>)
    ELSE LET task_id     == Value(task_id_of(data))
             description == Get(data.o, "description", "")
             task        == execute_worker_agent(description, pf_ok)
             invocation  == [description |-> description, exc |-> task.exc]
             comment     == add_comment(task_id, task.text, comment_ok)
         IN  IF task.exc # "none" THEN Did("none", <<invocation>>, <<>>)
             ELSE IF ~comment_ok THEN Did("none", <<invocation>>, <<comment>>)
             ELSE Did("none", <<invocation>>,
                      <<comment, mark_task_done(task_id, move_ok)>>)

\* parse_payload(message.body.decode()): (event, data), or the exception raised
parse_payload(raw) ==
    LET body == json_loads(raw)
    IN  IF body.exc # "none"
        THEN [exc |-> body.exc, event |-> JList, data |-> JList]
        ELSE IF body.v.t # "object"
        THEN [exc |-> "AttributeError", event |-> JList, data |-> JList]
        ELSE [exc |-> "none",
              event |-> Get(body.v.f, "event", JStr("unknown")),
              data |-> Get(body.v.f, "data", JDict(EmptyDict))]

\* message.process(): leaving the block normally acknowledges the message,
\* leaving it with an exception rejects it without requeue
process_exit(exc) == IF exc = "none" THEN "ack" ELSE "reject"

\* _on_message without the try/except around process_message
on_message_uncaught(raw, pf_ok, comment_ok, move_ok) ==
    LET parsed == parse_payload(raw)
        did    == process_message(parsed.event, parsed.data, pf_ok, comment_ok, move_ok)
    IN  IF parsed.exc # "none"
        THEN [settle |-> process_exit("none"), parse_exc |-> parsed.exc,
              exc |-> "none", invoked |-> <<>>, api_calls |-> <<>>]
        ELSE [settle |-> process_exit(did.exc), parse_exc |-> "none",
              exc |-> did.exc, invoked |-> did.invoked, api_calls |-> did.api_calls]

\* _on_message without the try/except around parse_payload
on_message_parse_uncaught(raw, pf_ok, comment_ok, move_ok) ==
    LET parsed == parse_payload(raw)
        did    == process_message(parsed.event, parsed.data, pf_ok, comment_ok, move_ok)
    IN  IF parsed.exc # "none"
        THEN [settle |-> process_exit(parsed.exc), parse_exc |-> parsed.exc,
              exc |-> "none", invoked |-> <<>>, api_calls |-> <<>>]
        ELSE [settle |-> process_exit("none"), parse_exc |-> "none",
              exc |-> did.exc, invoked |-> did.invoked, api_calls |-> did.api_calls]

\* _on_message(message): how the message is settled and what was done for it
on_message_result(raw, pf_ok, comment_ok, move_ok) ==
    LET parsed == parse_payload(raw)
        did    == process_message(parsed.event, parsed.data, pf_ok, comment_ok, move_ok)
    IN  IF parsed.exc # "none"
        THEN [settle |-> process_exit("none"), parse_exc |-> parsed.exc,
              exc |-> "none", invoked |-> <<>>, api_calls |-> <<>>]
        ELSE [settle |-> process_exit("none"), parse_exc |-> "none",
              exc |-> did.exc, invoked |-> did.invoked, api_calls |-> did.api_calls]

Workers == {"w1", "w2"}

\* a queue of its own for each worker
queue_name_per_worker(w) == w

\* settings.rabbitmq_task_queue, the queue every worker declares and consumes
queue_name(w) == "task_events"

\* the words of a routing key
Words(key) ==
    CASE key = "task.created"  -> <<"task", "created">>
      [] key = "task.moved"    -> <<"task", "moved">>
      [] key = "task.commented" -> <<"task", "commented">>
      [] key = "task.updated"  -> <<"task", "updated">>
      [] key = "task.deleted"  -> <<"task", "deleted">>
      [] key = "task.feedback_added" -> <<"task", "feedback_added">>
      [] key = "user.created"  -> <<"user", "created">>

\* the binding pattern "task.#" of the queue: the word task, then any words
topic_matches(key) == Words(key)[1] = "task"

Msg(routing_key, obj) == [routing_key |-> routing_key, body |-> json_dumps(PObject(obj))]

\* the messages routed to the exchange
BrokerMessages ==
    { Msg("task.created", [event |-> JStr("task.created"), data |-> JDict(DataT1)]),
      Msg("task.created", [event |-> JStr("task.created"),
                           data |-> JDict([task_id |-> "t2"])]),
      Msg("task.created", [event |-> JStr("task.created"),
                           data |-> JDict([description |-> "x"])]),
      Msg("task.created", [event |-> JStr("task.created"), data |-> JList]),
      Msg("task.moved",   [event |-> JStr("task.moved"), data |-> JDict(DataT1)]),
      Msg("task.moved",   [data |-> JDict(DataT1)]),
      Msg("user.created", [event |-> JStr("user.created"), data |-> JDict(DataT1)]),
      [routing_key |-> "task.created", body |-> NotJsonBody],
      [routing_key |-> "task.created", body |-> BadUtf8Body],
      [routing_key |-> "task.created", body |-> json_dumps(PArray)] }

\* a message reaches the exchange, which copies it to every queue whose
\* binding matches the routing key
route(msg) ==
    /\ Len(routed) < MaxRouted
    /\ routed' = Append(routed, msg)
    /\ queues' = [q \in DOMAIN queues |->
                    IF topic_matches(msg.routing_key)
                    THEN Append(queues[q], Len(routed) + 1)
                    ELSE queues[q]]
    /\ UNCHANGED <<agent_api_key, consumers, unacked, handled>>
    /\ UNCHANGED notWrk

\* start_worker without channel.set_qos: no prefetch limit
start_worker_no_qos(w) ==
    /\ ~consumers[w].running
    /\ queues' = IF queue_name(w) \in DOMAIN queues THEN queues
                 ELSE [q \in DOMAIN queues \cup {queue_name(w)} |->
                         IF q \in DOMAIN queues THEN queues[q] ELSE <<>>]
    /\ consumers' = [consumers EXCEPT ![w] =
                       [running |-> TRUE, prefetch |-> 0, queue |-> queue_name(w)]]
    /\ UNCHANGED <<agent_api_key, routed, unacked, handled>>
    /\ UNCHANGED notWrk

\* start_worker(settings): declare the queue, bind it, set the prefetch
\* count, start consuming
start_worker(w) ==
    /\ ~consumers[w].running
    /\ queues' = IF queue_name(w) \in DOMAIN queues THEN queues
                 ELSE [q \in DOMAIN queues \cup {queue_name(w)} |->
                         IF q \in DOMAIN queues THEN queues[q] ELSE <<>>]
    /\ consumers' = [consumers EXCEPT ![w] =
                       [running |-> TRUE, prefetch |-> PrefetchCount,
                        queue |-> queue_name(w)]]
    /\ UNCHANGED <<agent_api_key, routed, unacked, handled>>
    /\ UNCHANGED notWrk

\* the broker delivers the message at the head of a queue to one of its
\* consumers that is below its prefetch count (0: no limit)
deliver(w) ==
    LET q == consumers[w].queue
    IN  /\ consumers[w].running
        /\ queues[q] # <<>>
        /\ consumers[w].prefetch = 0 \/ Len(unacked[w]) < consumers[w].prefetch
        /\ unacked' = [unacked EXCEPT ![w] = Append(@, Head(queues[q]))]
        /\ queues' = [queues EXCEPT ![q] = Tail(@)]
        /\ UNCHANGED <<agent_api_key, routed, consumers, handled>>
        /\ UNCHANGED notWrk

\* the callback _on_message runs for the oldest unsettled delivery of w
on_message_steps(w, pf_ok, comment_ok, move_ok) ==
    /\ consumers[w].running
    /\ unacked[w] # <<>>
    /\ LET id  == Head(unacked[w])
           res == on_message_result(routed[id].body, pf_ok, comment_ok, move_ok)
       IN  handled' = Append(handled,
                [id |-> id, worker |-> w, end |-> "returned", settle |-> res.settle,
                 parse_exc |-> res.parse_exc, exc |-> res.exc,
                 invoked |-> res.invoked, api_calls |-> res.api_calls])
    /\ unacked' = [unacked EXCEPT ![w] = Tail(@)]
    /\ UNCHANGED <<agent_api_key, routed, queues, consumers>>

on_message(w, pf_ok, comment_ok, move_ok) ==
    /\ on_message_steps(w, pf_ok, comment_ok, move_ok)
    /\ UNCHANGED notWrk

WrkInit ==
    /\ agent_api_key \in BOOLEAN
    /\ routed = <<>>
    /\ queues = [q \in {} |-> <<>>]
    /\ consumers = [w \in Workers |-> [running |-> FALSE, prefetch |-> 0, queue |-> ""]]
    /\ unacked = [w \in Workers |-> <<>>]
    /\ handled = <<>>

WrkIdle ==
    /\ agent_api_key = FALSE
    /\ routed = <<>>
    /\ queues = [q \in {} |-> <<>>]
    /\ consumers = [w \in Workers |-> [running |-> FALSE, prefetch |-> 0, queue |-> ""]]
    /\ unacked = [w \in Workers |-> <<>>]
    /\ handled = <<>>

-----------------------------------------------------------------------------
(* Startup orchestrator: startup.py *)

\* _wait_for_api: one iteration of its loop, GET /health answering 2xx (ok) or not
wait_for_api(ok) ==
    /\ stage = "wait"
    /\ health_requests < max_retries
    /\ health_requests' = health_requests + 1
    /\ health_ok' = ok
    /\ stage' = IF ok THEN "signup" ELSE "wait"
    /\ UNCHANGED <<max_retries, exit_code>>
    /\ UNCHANGED <<recvVars, sigVars, regVars, wrkVars, envVars, oneVars, peerVars>>

\* _wait_for_api without its sys.exit(1): main() goes on to the signup
wait_exhausted_proceeds ==
    /\ stage = "wait"
    /\ health_requests >= max_retries
    /\ stage' = "signup"
    /\ UNCHANGED <<max_retries, health_requests, health_ok, exit_code>>
    /\ UNCHANGED <<recvVars, sigVars, regVars, wrkVars, envVars, oneVars, peerVars>>

\* _wait_for_api: its loop is exhausted, sys.exit(1)
wait_exhausted ==
    /\ stage = "wait"
    /\ health_requests >= max_retries
    /\ stage' = "exited"
    /\ exit_code' = Some(1)
    /\ UNCHANGED <<max_retries, health_requests, health_ok>>
    /\ UNCHANGED <<recvVars, sigVars, regVars, wrkVars, envVars, oneVars, peerVars>>

\* main(): the next iteration of the signup loop calls registry.signup()
signup_attempt(outcome) ==
    /\ stage = "signup"
    /\ pc = "idle"
    /\ runs < max_retries
    /\ login(outcome)

\* registry.signup() is running
signup_running == stage = "signup"

\* main() retrying after any failure of signup() while attempts remain
signup_raised_retry_any ==
    /\ stage = "signup"
    /\ pc = "raised"
    /\ IF runs < max_retries
       THEN /\ pc' = "idle"
            /\ UNCHANGED <<stage, exit_code>>
       ELSE /\ stage' = "exited"
            /\ exit_code' = Some(1)
            /\ UNCHANGED pc
    /\ UNCHANGED <<registrations, next_id, api_token, webhooks, todo, calls,
                   cleanup_failed, result, raised, runs, completed>>
    /\ UNCHANGED <<max_retries, health_requests, health_ok>>
    /\ UNCHANGED <<recvVars, sigVars, wrkVars, envVars, oneVars, peerVars>>

\* main(): signup() raised.  An HTTPStatusError with status 401 on an attempt
\* that is not the last one is slept on and retried; any other HTTPStatusError
\* is sys.exit(1); another exception is not caught and ends the process.
signup_raised ==
    /\ stage = "signup"
    /\ pc = "raised"
    /\ IF raised = "401" /\ runs < max_retries
       THEN /\ pc' = "idle"
            /\ UNCHANGED <<stage, exit_code>>
       ELSE /\ stage' = "exited"
            /\ exit_code' = Some(1)
            /\ UNCHANGED pc
    /\ UNCHANGED <<registrations, next_id, api_token, webhooks, todo, calls,
                   cleanup_failed, result, raised, runs, completed>>
    /\ UNCHANGED <<max_retries, health_requests, health_ok>>
    /\ UNCHANGED <<recvVars, sigVars, wrkVars, envVars, oneVars, peerVars>>

\* main(): signup() returned; the publisher and the receiver app are created
\* with the secret
create_app ==
    /\ stage = "signup"
    /\ pc = "returned"
    /\ stage' = "app"
    /\ webhook_secret' = result
    /\ publisher' = TRUE
    /\ UNCHANGED <<pub_connection, pub_exchange, connect_returned, exchange_msgs,
                   request, response>>
    /\ UNCHANGED <<max_retries, health_requests, health_ok, exit_code>>
    /\ UNCHANGED <<sigVars, regVars, wrkVars, envVars, oneVars, peerVars>>

\* uvicorn.run(app) with a lifespan that does not connect the publisher
lifespan_startup_no_connect(failed_at) ==
    /\ stage = "app"
    /\ stage' = "serving"
    /\ UNCHANGED recvVars
    /\ UNCHANGED <<max_retries, health_requests, health_ok, exit_code>>
    /\ UNCHANGED <<sigVars, regVars, wrkVars, envVars, oneVars, peerVars>>

\* uvicorn.run(app): the lifespan runs publisher.connect() before the server
\* accepts requests; when it raises, the server does not start
lifespan_startup(failed_at) ==
    /\ stage = "app"
    /\ connect_steps(failed_at)
    /\ stage' = IF failed_at = "none" THEN "serving" ELSE "exited"
    /\ exit_code' = IF failed_at = "none" THEN None ELSE Some(3)
    /\ UNCHANGED <<max_retries, health_requests, health_ok>>
    /\ UNCHANGED <<sigVars, regVars, wrkVars, envVars, oneVars, peerVars>>

\* POST /webhook requests reach the handler while the server is serving
serve(raw_body, x_webhook_signature, x_webhook_event, broker_ok) ==
    /\ stage = "serving"
    /\ receive_webhook(raw_body, x_webhook_signature, x_webhook_event, broker_ok)

\* the server stops serving; the lifespan then runs publisher.close()
lifespan_shutdown ==
    /\ stage = "serving"
    /\ stage' = "stopped"
    /\ exit_code' = Some(0)
    /\ pub_connection' = IF pub_connection = "open" THEN "closed" ELSE pub_connection
    /\ UNCHANGED <<webhook_secret, publisher, pub_exchange, connect_returned,
                   exchange_msgs, request, response>>
    /\ UNCHANGED <<max_retries, health_requests, health_ok>>
    /\ UNCHANGED <<sigVars, regVars, wrkVars, envVars, oneVars, peerVars>>

MainInit ==
    /\ max_retries \in 0 .. MaxRuns
    /\ stage = "wait"
    /\ health_requests = 0
    /\ health_ok = FALSE
    /\ exit_code = None

MainIdle ==
    /\ max_retries = 0
    /\ stage = "idle"
    /\ health_requests = 0
    /\ health_ok = FALSE
    /\ exit_code = None

-----------------------------------------------------------------------------
(* Worker processes that end: worker_main.py, and crashes *)

\* What the callback of a delivery had done when its process ended before the
\* acknowledgment was sent.  "not_started": the callback had not run;
\* "after_comment": the process ended between the two task-API calls;
\* "before_ack": everything but the acknowledgment was done.
interrupted(raw, pf_ok, comment_ok, move_ok, progress) ==
    LET res == on_message_result(raw, pf_ok, comment_ok, move_ok)
    IN  CASE progress = "not_started" ->
               [settle |-> "none", parse_exc |-> "none", exc |-> "none",
                invoked |-> <<>>, api_calls |-> <<>>]
          [] progress = "after_comment" ->
               [res EXCEPT !.settle = "none",
                           !.api_calls = IF res.api_calls = <<>> THEN <<>>
                                         ELSE <<res.api_calls[1]>>]
          [] progress = "before_ack" -> [res EXCEPT !.settle = "none"]

\* the process of worker w ends with `how`; the broker puts the deliveries it
\* had not acknowledged back at the head of their queue
process_ends(w, how, pf_ok, comment_ok, move_ok, progress) ==
    /\ consumers[w].running
    /\ crashes < MaxCrashes
    /\ crashes' = crashes + 1
    /\ consumers' = [consumers EXCEPT ![w].running = FALSE]
    /\ unacked' = [unacked EXCEPT ![w] = <<>>]
    /\ queues' = [queues EXCEPT ![consumers[w].queue] = unacked[w] \o @]
    /\ IF unacked[w] = <<>>
       THEN UNCHANGED handled
       ELSE LET id  == Head(unacked[w])
                res == interrupted(routed[id].body, pf_ok, comment_ok, move_ok, progress)
            IN  handled' = Append(handled,
                    [id |-> id, worker |-> w, end |-> how, settle |-> res.settle,
                     parse_exc |-> res.parse_exc, exc |-> res.exc,
                     invoked |-> res.invoked, api_calls |-> res.api_calls])
    /\ UNCHANGED <<agent_api_key, routed, outbox>>
    /\ UNCHANGED <<recvVars, sigVars, regVars, mainVars, oneVars, peerVars>>

\* the same when the broker had taken every delivery as acknowledged when it
\* made it (consuming with no_ack): nothing goes back to the queue
crash_auto_acked(w, pf_ok, comment_ok, move_ok, progress) ==
    /\ consumers[w].running
    /\ crashes < MaxCrashes
    /\ crashes' = crashes + 1
    /\ consumers' = [consumers EXCEPT ![w].running = FALSE]
    /\ unacked' = [unacked EXCEPT ![w] = <<>>]
    /\ UNCHANGED <<agent_api_key, routed, queues, handled, outbox>>
    /\ UNCHANGED <<recvVars, sigVars, regVars, mainVars, oneVars, peerVars>>

\* the worker process dies (killed, out of memory, host lost) at any point of
\* a callback
crash(w, pf_ok, comment_ok, move_ok, progress) ==
    process_ends(w, "crashed", pf_ok, comment_ok, move_ok, progress)

\* _run_consumer gets SIGINT or SIGTERM: stop is set, _run_consumer returns
\* and asyncio.run() cancels the tasks that are left.  The callback makes
\* blocking calls only, so a callback is cancelled before it ran or while it
\* awaits the acknowledgment.
shutdown(w, pf_ok, comment_ok, move_ok, progress) ==
    /\ progress \in {"not_started", "before_ack"}
    /\ process_ends(w, "shutdown", pf_ok, comment_ok, move_ok, progress)

Progress == {"not_started", "after_comment", "before_ack"}

\* the messages sent to the exchange while workers end and restart
FailoverMessages ==
    { Msg("task.created", [event |-> JStr("task.created"), data |-> JDict(DataT1)]) }

\* the broker after RabbitPublisher.connect(): the queue is declared and bound
FailoverInit ==
    /\ agent_api_key = TRUE
    /\ routed = <<>>
    /\ queues = [q \in {queue_name("w1")} |-> <<>>]
    /\ consumers = [w \in Workers |-> [running |-> FALSE, prefetch |-> 0, queue |-> ""]]
    /\ unacked = [w \in Workers |-> <<>>]
    /\ handled = <<>>
    /\ crashes = 0
    /\ outbox = <<>>

-----------------------------------------------------------------------------
(* The pipeline end to end: task API, receiver, broker, workers *)

\* a webhook of the task API: the event, its data, and whether it was POSTed
Webhook(event, data) == [event |-> event, data |-> data, posted |-> FALSE]

\* the request the task API sends for a webhook: the JSON envelope, the
\* X-Webhook-Event header and, when a secret is shared, the signature
webhook_body(wh) ==
    json_dumps(PObject([event |-> JStr(wh.event), data |-> JDict(wh.data)]))
webhook_signature(wh) ==
    IF TruthySecret(webhook_secret)
    THEN Some(sign(webhook_body(wh), Value(webhook_secret)))
    ELSE None

\* the webhooks the task API emits for the calls of the worker that succeeded
webhooks_for(api_calls) ==
    LET ev(c) == IF c.op = "POST /tasks/{id}/comments" THEN "task.commented"
                 ELSE "task.moved"
        oks   == SelectSeq(api_calls, LAMBDA c : c.ok)
    IN  [k \in DOMAIN oks |-> Webhook(ev(oks[k]), [id |-> oks[k].task])]

\* the tasks created from outside
CreatedTasks == {DataT1, [id |-> "t1"]}

\* a task is created through the task API, which emits task.created
create_task(data) ==
    /\ outbox = <<>>
    /\ outbox' = <<Webhook("task.created", data)>>
    /\ UNCHANGED crashes
    /\ UNCHANGED <<recvVars, sigVars, regVars, wrkVars, mainVars, oneVars, peerVars>>

\* the lifespan's publisher.connect() without declare_queue and queue.bind
pipeline_startup_no_queue(failed_at) ==
    /\ stage = "app"
    /\ connect_steps(failed_at)
    /\ stage' = IF failed_at = "none" THEN "serving" ELSE "exited"
    /\ exit_code' = IF failed_at = "none" THEN None ELSE Some(3)
    /\ UNCHANGED queues
    /\ UNCHANGED <<agent_api_key, routed, consumers, unacked, handled>>
    /\ UNCHANGED <<max_retries, health_requests, health_ok>>
    /\ UNCHANGED <<sigVars, regVars, envVars, oneVars, peerVars>>

\* the lifespan's publisher.connect() with the broker: when it returns, the
\* queue is declared and bound
pipeline_startup(failed_at) ==
    /\ stage = "app"
    /\ connect_steps(failed_at)
    /\ stage' = IF failed_at = "none" THEN "serving" ELSE "exited"
    /\ exit_code' = IF failed_at = "none" THEN None ELSE Some(3)
    /\ queues' = IF failed_at # "none" \/ queue_name("w1") \in DOMAIN queues
                 THEN queues
                 ELSE [q \in DOMAIN queues \cup {queue_name("w1")} |->
                         IF q \in DOMAIN queues THEN queues[q] ELSE <<>>]
    /\ UNCHANGED <<agent_api_key, routed, consumers, unacked, handled>>
    /\ UNCHANGED <<max_retries, health_requests, health_ok>>
    /\ UNCHANGED <<sigVars, regVars, envVars, oneVars, peerVars>>

\* the task API POSTs its oldest webhook to the receiver, which is serving;
\* what the receiver publishes the exchange routes to the bound queues
post_webhook ==
    /\ stage = "serving"
    /\ \E i \in DOMAIN outbox : ~outbox[i].posted
    /\ Len(routed) < MaxPublished
    /\ LET i    == CHOOSE k \in DOMAIN outbox :
                     ~outbox[k].posted /\ \A j \in 1 .. k - 1 : outbox[j].posted
           wh   == outbox[i]
           res  == respond(webhook_body(wh), webhook_signature(wh), Some(wh.event), TRUE)
           msgs == [k \in DOMAIN res.published |->
                      [routing_key |-> res.published[k].routing_key,
                       body |-> res.published[k].body]]
       IN  /\ request' = Some([raw_body |-> webhook_body(wh),
                               x_webhook_signature |-> webhook_signature(wh),
                               x_webhook_event |-> Some(wh.event)])
           /\ response' = Some(res)
           /\ exchange_msgs' = exchange_msgs \o res.published
           /\ routed' = routed \o msgs
           /\ queues' = [q \in DOMAIN queues |->
                           IF msgs # <<>> /\ topic_matches(msgs[1].routing_key)
                           THEN Append(queues[q], Len(routed) + 1)
                           ELSE queues[q]]
           /\ outbox' = [outbox EXCEPT ![i].posted = TRUE]
    /\ UNCHANGED <<webhook_secret, publisher, pub_connection, pub_exchange,
                   connect_returned>>
    /\ UNCHANGED <<agent_api_key, consumers, unacked, handled, crashes>>
    /\ UNCHANGED <<sigVars, regVars, mainVars, oneVars, peerVars>>

\* _on_message with the task API: the calls it made that succeeded make the
\* task API emit task.commented and task.moved
consume(w, pf_ok, comment_ok, move_ok) ==
    /\ on_message_steps(w, pf_ok, comment_ok, move_ok)
    /\ outbox' = outbox \o webhooks_for(handled'[Len(handled')].api_calls)
    /\ UNCHANGED crashes
    /\ UNCHANGED <<recvVars, sigVars, regVars, mainVars, oneVars, peerVars>>

\* a deployment before anything started: the app is created with its
\* publisher, the worker has its task-API key
PipelineInit ==
    /\ webhook_secret \in {None, Some(<<1>>)}
    /\ publisher = TRUE
    /\ pub_connection = "none"
    /\ pub_exchange = FALSE
    /\ connect_returned = FALSE
    /\ exchange_msgs = <<>>
    /\ request = None
    /\ response = None
    /\ agent_api_key = TRUE
    /\ routed = <<>>
    /\ queues = [q \in {} |-> <<>>]
    /\ consumers = [w \in Workers |-> [running |-> FALSE, prefetch |-> 0, queue |-> ""]]
    /\ unacked = [w \in Workers |-> <<>>]
    /\ handled = <<>>
    /\ max_retries = 0
    /\ stage = "app"
    /\ health_requests = 0
    /\ health_ok = FALSE
    /\ exit_code = None

-----------------------------------------------------------------------------
(* One-shot worker: worker_main.py *)

\* the descriptions of what TASK_PAYLOAD holds: whether it is base64 text
\* (b64decode raises binascii.Error otherwise) and the bytes it encodes
TaskPayload(b64, raw) == [b64 |-> b64, raw |-> raw]

OneShotEvents == {JStr("task.created"), JStr("task.moved"), JStr("task.commented")}
OneShotDatas  == {JDict(DataT1), JDict([id |-> "t1"]), JDict([task_id |-> "t2"]),
                  JDict([description |-> "x"]), JList}
TaskPayloads ==
    {TaskPayload(TRUE, json_dumps(PObject([event |-> e, data |-> dt]))) :
        e \in OneShotEvents, dt \in OneShotDatas}
    \cup {TaskPayload(TRUE, json_dumps(PObject([event |-> e]))) : e \in OneShotEvents}
    \cup {TaskPayload(TRUE, json_dumps(PObject([data |-> dt]))) : dt \in OneShotDatas}
    \cup {TaskPayload(TRUE, NotJsonBody), TaskPayload(TRUE, BadUtf8Body),
          TaskPayload(TRUE, json_dumps(PArray)), TaskPayload(FALSE, BadUtf8Body)}

\* what a one-shot run did: its exit code, the step that raised ("none" when
\* none did) with the exception, and what process_message did
Ran(exit, failed, exc, did) ==
    [exit |-> exit, failed |-> failed, exc |-> exc,
     invoked |-> did.invoked, api_calls |-> did.api_calls]

\* _run_oneshot(): sys.exit(1) when decoding TASK_PAYLOAD, parse_payload or
\* process_message raises; returning normally ends the process with code 0
oneshot(payload, pf_ok, comment_ok, move_ok) ==
    LET nothing == Did("none", <<>>, <<>>)
        parsed  == parse_payload(payload.raw)
        did     == process_message(parsed.event, parsed.data, pf_ok, comment_ok, move_ok)
    IN  IF ~payload.b64 THEN Ran(1, "b64decode", "binascii.Error", nothing)
        ELSE IF ~payload.raw.utf8 THEN Ran(1, "decode", "UnicodeDecodeError", nothing)
        ELSE IF parsed.exc # "none" THEN Ran(1, "parse_payload", parsed.exc, nothing)
        ELSE IF did.exc # "none" THEN Ran(1, "process_message", did.exc, did)
        ELSE Ran(0, "none", "none", did)

\* _run() with TASK_PAYLOAD set: asyncio.run(_run_oneshot()), once
run_oneshot(pf_ok, comment_ok, move_ok) ==
    /\ task_payload # None
    /\ oneshot_exit = None
    /\ LET ran == oneshot(Value(task_payload), pf_ok, comment_ok, move_ok)
       IN  /\ oneshot_exit' = Some(ran.exit)
           /\ oneshot_did' = Some(ran)
    /\ UNCHANGED task_payload
    /\ UNCHANGED <<recvVars, sigVars, regVars, wrkVars, mainVars, envVars, peerVars>>

\* a one-shot process before it runs: TASK_PAYLOAD is set and non-empty
OneShotInit ==
    /\ task_payload \in {Some(p) : p \in TaskPayloads}
    /\ oneshot_exit = None
    /\ oneshot_did = None

EnvIdle ==
    /\ crashes = 0
    /\ outbox = <<>>

OneIdle ==
    /\ task_payload = None
    /\ oneshot_exit = None
    /\ oneshot_did = None

-----------------------------------------------------------------------------
(* Receiver processes sharing one callback URL: startup.py over registry.py *)

\* the receiver processes configured with the callback URL
Receivers == {"r1", "r2"}

\* a receiver process: where its main() is ("stopped": not running; "cleanup",
\* "delete", "register": in signup(), logged in; "serving": the app serves),
\* what is left of the listing its cleanup loop runs over, the secret it got
\* from signup(), and the number of times it was started
Peer(at, rest, secret, started) ==
    [pc |-> at, todo |-> rest, secret |-> secret, runs |-> started]

\* the variables of the single-process signup are not used here
single_signup == <<api_token, pc, webhooks, todo, calls, cleanup_failed, result,
                   raised, runs, completed>>
not_a_peer == <<recvVars, sigVars, wrkVars, mainVars, envVars, oneVars>>

\* main() of p starts and signup() runs _login(): a failure ends the process
\* (or is retried by main(), which is a start like this one)
peer_login(p, outcome) ==
    /\ peers[p].pc = "stopped"
    /\ peers[p].runs < MaxRuns
    /\ peers' = [peers EXCEPT ![p] =
                   Peer(IF outcome = "ok" THEN "cleanup" ELSE "stopped",
                        <<>>, None, @.runs + 1)]
    /\ UNCHANGED <<registrations, next_id, single_signup>>
    /\ UNCHANGED not_a_peer

\* _cleanup_old_webhooks() of p up to its first DELETE
peer_cleanup_list(p, outcome) ==
    /\ peers[p].pc = "cleanup"
    /\ LET rest == next_stale(ById(registrations), Callback)
       IN  peers' = [peers EXCEPT ![p] =
                       IF outcome = "ok"
                       THEN Peer(after_visit(rest), rest, None, @.runs)
                       ELSE Peer("register", <<>>, None, @.runs)]
    /\ UNCHANGED <<registrations, next_id, single_signup>>
    /\ UNCHANGED not_a_peer

\* one DELETE /webhooks/{id} of p's loop and the iterations up to the next
\* one; the API answers 404 for a registration that is gone, and any failure
\* ends the loop
peer_cleanup_delete(p, outcome) ==
    LET wh   == Head(peers[p].todo)
        rest == next_stale(Tail(peers[p].todo), Callback)
        out  == IF outcome = "ok" /\ wh \notin registrations THEN "404" ELSE outcome
    IN  /\ peers[p].pc = "delete"
        /\ registrations' = IF out = "ok" THEN registrations \ {wh} ELSE registrations
        /\ peers' = [peers EXCEPT ![p] =
                       IF out = "ok"
                       THEN Peer(after_visit(rest), rest, None, @.runs)
                       ELSE Peer("register", <<>>, None, @.runs)]
        /\ UNCHANGED <<next_id, single_signup>>
        /\ UNCHANGED not_a_peer

\* _register() of p; when it returns, main() creates the app with the secret
\* and serves; a failure ends the process
peer_register(p, outcome) ==
    /\ peers[p].pc = "register"
    /\ IF outcome = "ok"
       THEN /\ registrations' = registrations \cup {Reg(next_id, Callback)}
            /\ next_id' = next_id + 1
            /\ peers' = [peers EXCEPT ![p] =
                           Peer("serving", <<>>, Some(Reg(next_id, Callback).secret),
                                @.runs)]
       ELSE /\ peers' = [peers EXCEPT ![p] = Peer("stopped", <<>>, None, @.runs)]
            /\ UNCHANGED <<registrations, next_id>>
    /\ UNCHANGED single_signup
    /\ UNCHANGED not_a_peer

\* the process of p ends while it serves; the secret was held in memory only
peer_stops(p) ==
    /\ peers[p].pc = "serving"
    /\ peers' = [peers EXCEPT ![p] = Peer("stopped", <<>>, None, @.runs)]
    /\ UNCHANGED <<registrations, next_id, single_signup>>
    /\ UNCHANGED not_a_peer

PeerInit ==
    /\ peers = [p \in Receivers |-> Peer("stopped", <<>>, None, 0)]
    /\ registrations \in SUBSET InitialRegs
    /\ next_id = FirstFreeId
    /\ api_token = None
    /\ pc = "idle"
    /\ webhooks = <<>>
    /\ todo = <<>>
    /\ calls = <<>>
    /\ cleanup_failed = FALSE
    /\ result = None
    /\ raised = "none"
    /\ runs = 0
    /\ completed = 0

PeerIdle == peers = [p \in Receivers |-> Peer("stopped", <<>>, None, 0)]

-----------------------------------------------------------------------------
(* Specifications. *)

\* the webhook receiver and its publisher
Init == RecvInit /\ SigIdle /\ RegIdle /\ WrkIdle /\ MainIdle /\ EnvIdle /\ OneIdle /\ PeerIdle
Spec == Init /\ [][Next]_vars

\* the signature verifier on its own
SigSpecInit == SigInit /\ RecvIdle /\ RegIdle /\ WrkIdle /\ MainIdle /\ EnvIdle /\ OneIdle /\ PeerIdle
SigSpecNext == Verify
SigSpec == SigSpecInit /\ [][SigSpecNext]_vars

\* signup() run repeatedly by one process
SignupInit == RegInit /\ RecvIdle /\ SigIdle /\ WrkIdle /\ MainIdle /\ EnvIdle /\ OneIdle /\ PeerIdle
SignupNext ==
    \/ \E outcome \in request_outcomes(FALSE) : login(outcome)
    \/ \E outcome \in request_outcomes(TRUE) : cleanup_list(outcome)
    \/ \E outcome \in request_outcomes(TRUE) : cleanup_delete(outcome)
    \/ \E outcome \in request_outcomes(TRUE) : register(outcome)
    \/ other_registers
SignupSpec == SignupInit /\ [][SignupNext]_vars

\* workers consuming from the broker
WorkerInit == WrkInit /\ RecvIdle /\ SigIdle /\ RegIdle /\ MainIdle /\ EnvIdle /\ OneIdle /\ PeerIdle
WorkerNext ==
    \/ \E msg \in BrokerMessages : route(msg)
    \/ \E w \in Workers : start_worker(w)
    \/ \E w \in Workers : deliver(w)
    \/ \E w \in Workers, pf_ok \in BOOLEAN, comment_ok \in BOOLEAN, move_ok \in BOOLEAN :
         on_message(w, pf_ok, comment_ok, move_ok)
WorkerSpec == WorkerInit /\ [][WorkerNext]_vars

\* the startup orchestrator, from process start to the end of serving
StartupRequests == {Raw(TRUE, TRUE, 0, ScenarioA), NotJsonBody}
StartupInit == MainInit /\ RegInit /\ RecvIdle /\ SigIdle /\ WrkIdle /\ EnvIdle /\ OneIdle /\ PeerIdle
StartupNext ==
    \/ \E ok \in BOOLEAN : wait_for_api(ok)
    \/ wait_exhausted
    \/ \E outcome \in request_outcomes(FALSE) : signup_attempt(outcome)
    \/ \E outcome \in request_outcomes(TRUE) : signup_running /\ cleanup_list(outcome)
    \/ \E outcome \in request_outcomes(TRUE) : signup_running /\ cleanup_delete(outcome)
    \/ \E outcome \in request_outcomes(TRUE) : signup_running /\ register(outcome)
    \/ signup_raised
    \/ create_app
    \/ \E failed_at \in ConnectSteps : lifespan_startup(failed_at)
    \/ \E raw_body \in StartupRequests, broker_ok \in BOOLEAN :
         \E x_webhook_signature \in
               {None} \cup {Some(sign(raw_body, r.secret)) : r \in registrations} :
            serve(raw_body, x_webhook_signature, None, broker_ok)
    \/ lifespan_shutdown
StartupSpec == StartupInit /\ [][StartupNext]_vars
\* the same, with the polling loop of _wait_for_api running on
StartupFair ==
    StartupSpec /\ WF_vars((\E ok \in BOOLEAN : wait_for_api(ok)) \/ wait_exhausted)

\* workers that crash, are terminated and restart
FailoverSpecInit ==
    FailoverInit /\ RecvIdle /\ SigIdle /\ RegIdle /\ MainIdle /\ OneIdle /\ PeerIdle
\* the Processing Function and the task-API calls succeed here: what matters
\* is where a process ends
Handle(w) == on_message(w, TRUE, TRUE, TRUE)
\* the workers being alike, the processes that end are those of one of them
Unsteady == {"w2"}
FailoverNext ==
    \/ \E msg \in FailoverMessages : route(msg)
    \/ \E w \in Workers : start_worker(w)
    \/ \E w \in Workers : deliver(w)
    \/ \E w \in Workers : Handle(w)
    \/ \E w \in Unsteady, progress \in Progress : crash(w, TRUE, TRUE, TRUE, progress)
    \/ \E w \in Unsteady, progress \in Progress : shutdown(w, TRUE, TRUE, TRUE, progress)
FailoverSpec == FailoverSpecInit /\ [][FailoverNext]_vars
\* the same, with the broker delivering to a consumer that stays ready and a
\* callback that has a delivery running to its end
FailoverFair ==
    /\ FailoverSpec
    /\ \A w \in Workers : WF_vars(deliver(w)) /\ WF_vars(Handle(w))

\* the pipeline end to end
PipelineSpecInit == PipelineInit /\ SigIdle /\ RegIdle /\ EnvIdle /\ OneIdle /\ PeerIdle
PipelineNext ==
    \/ \E failed_at \in ConnectSteps : pipeline_startup(failed_at)
    \/ \E w \in Workers : start_worker(w)
    \/ \E data \in CreatedTasks : create_task(data)
    \/ post_webhook
    \/ \E w \in Workers : deliver(w)
    \/ \E w \in Workers, pf_ok, comment_ok, move_ok \in BOOLEAN :
          consume(w, pf_ok, comment_ok, move_ok)
PipelineSpec == PipelineSpecInit /\ [][PipelineNext]_vars

\* receiver processes signing up side by side
PeersSpecInit ==
    PeerInit /\ RecvIdle /\ SigIdle /\ WrkIdle /\ MainIdle /\ EnvIdle /\ OneIdle
PeersNext ==
    \/ \E p \in Receivers, outcome \in {"ok"} \cup Failures : peer_login(p, outcome)
    \/ \E p \in Receivers, outcome \in {"ok"} \cup Failures : peer_cleanup_list(p, outcome)
    \/ \E p \in Receivers, outcome \in {"ok"} \cup Failures : peer_cleanup_delete(p, outcome)
    \/ \E p \in Receivers, outcome \in {"ok"} \cup Failures : peer_register(p, outcome)
    \/ \E p \in Receivers : peer_stops(p)
PeersSpec == PeersSpecInit /\ [][PeersNext]_vars

\* the one-shot worker
OneShotSpecInit ==
    /\ OneShotInit
    /\ WrkInit
    /\ RecvIdle /\ SigIdle /\ RegIdle /\ MainIdle /\ EnvIdle /\ PeerIdle
OneShotNext ==
    \E pf_ok, comment_ok, move_ok \in BOOLEAN : run_oneshot(pf_ok, comment_ok, move_ok)
OneShotSpec == OneShotSpecInit /\ [][OneShotNext]_vars

-----------------------------------------------------------------------------
(* Claims about the webhook receiver (specification Spec). *)

Authenticated(rq) == check_signature(rq.raw_body, rq.x_webhook_signature) = "ok"
Parsed(rq)        == json_loads(rq.raw_body).exc = "none"
PayloadOf(rq)     == json_loads(rq.raw_body).v
EventOf(rq)       == event_of(PayloadOf(rq), rq.x_webhook_event)
Routable(rq)      == EventOf(rq).t = "str" /\ EventOf(rq).s \in TASK_EVENTS
Verifies(rq) ==
    /\ TruthyStr(rq.x_webhook_signature)
    /\ verify_signature(rq.raw_body, Value(webhook_secret),
                        Value(rq.x_webhook_signature)) = "True"

\* C1: with a secret configured, a request publishes only if its signature
\* header verifies against the raw body and the secret, and a request whose
\* header is absent or does not verify gets 401 and publishes nothing.
C1_Unverified401 ==
    \A rq \in request : \A rs \in response :
        TruthySecret(webhook_secret) =>
            /\ rs.published # <<>> => Verifies(rq)
            /\ ~Verifies(rq) => rs.status = 401 /\ rs.published = <<>>

\* C2: a request that passes authentication and JSON parsing gets 200 and
\* publishes exactly one message, routing key = event kind and body = the
\* original payload, when the kind is routable and a publisher is attached;
\* otherwise it gets 200 and publishes nothing.
C2_RoutedExactlyOnce ==
    \A rq \in request : \A rs \in response :
        (Authenticated(rq) /\ Parsed(rq)) =>
            /\ rs.status = 200
            /\ IF Routable(rq) /\ publisher
               THEN /\ Len(rs.published) = 1
                    /\ rs.published[1].routing_key = EventOf(rq).s
                    /\ json_loads(rs.published[1].body).v = PayloadOf(rq)
               ELSE rs.published = <<>>

\* C3: when publish raises for an authenticated, well-formed, routable webhook
\* the response is still 200.
C3_ForwardingFailureIs200 ==
    \A rq \in request : \A rs \in response :
        (/\ Authenticated(rq) /\ Parsed(rq) /\ PayloadOf(rq).t = "object"
         /\ Routable(rq) /\ publisher
         /\ rs.exc \in {"RuntimeError", "AMQPError"})
        => rs.status = 200

\* C4: every request is answered 200, 401 or 400, never 5xx.
C4_Only2xx4xx ==
    \A rs \in response : rs.status \in {200, 401, 400}

\* C5: an authenticated request whose body is not valid JSON gets 400 and
\* publishes nothing.
C5_BadJsonIs400 ==
    \A rq \in request : \A rs \in response :
        (Authenticated(rq) /\ ~Parsed(rq)) =>
            rs.status = 400 /\ rs.published = <<>>

-----------------------------------------------------------------------------
(* Claims about the signature verifier (specification SigSpec). *)

-----------------------------------------------------------------------------
(* Claims about signup (specification SignupSpec). *)

Stale == {r \in registrations : r.url = Callback}
Listed == {webhooks[i] : i \in DOMAIN webhooks}
Deleted == {calls[i].id : i \in {j \in DOMAIN calls :
                /\ calls[j].op = "DELETE /webhooks/{id}"
                /\ calls[j].outcome = "ok"}}
LastCall == calls[Len(calls)]
CleanupCalls == {"GET /webhooks", "DELETE /webhooks/{id}"}

C8_LoginCleanupRegister ==
    /\ calls # <<>> => calls[1].op = "POST /auth/login"
    /\ \A i \in DOMAIN calls : i > 1 =>
          /\ calls[i].op # "POST /auth/login"
          /\ calls[1].outcome = "ok"
    /\ \A i \in DOMAIN calls : calls[i].op = "POST /webhooks" =>
          /\ i = Len(calls)
          /\ \E j \in 1..(i - 1) : calls[j].op = "GET /webhooks"
          /\ \/ \E j \in 1..(i - 1) :
                   calls[j].op \in CleanupCalls /\ calls[j].outcome # "ok"
             \/ \A wh \in Listed : wh.url = Callback => wh.id \in Deleted
    /\ (calls # <<>> /\ calls[1].outcome # "ok") =>
          /\ Len(calls) = 1
          /\ pc = "raised"
          /\ raised = calls[1].outcome

C8_Witness ==
    /\ pc = "returned"
    /\ Len(calls) >= 4
    /\ calls[Len(calls) - 1].op = "DELETE /webhooks/{id}"

\* C9: a failure in the cleanup step does not end signup(): the register call
\* is issued after it, and signup() returns the secret of the registration
\* that call created (signup() raises only what the register call raised).
C9_CleanupFailureNotFatal ==
    cleanup_failed =>
        /\ pc \in {"register", "returned", "raised"}
        /\ pc # "register" =>
              /\ LastCall.op = "POST /webhooks"
              /\ IF LastCall.outcome = "ok"
                 THEN /\ pc = "returned"
                      /\ \E r \in registrations :
                            /\ r.id = LastCall.id
                            /\ r.url = Callback
                            /\ result = Some(r.secret)
                 ELSE pc = "raised" /\ raised = LastCall.outcome

C9_Witness ==
    /\ cleanup_failed
    /\ pc = "returned"
    /\ result # None

\* C10 as stated: when the cleanup step is over, every registration whose URL
\* equals the callback URL has been deleted and no other one has.
C10_CleanupDeletesAllStale ==
    pc = "register" =>
        /\ Stale = {}
        /\ \A wh \in Listed : wh.url # Callback =>
              wh.id \notin Deleted /\ wh \in registrations

\* C10 as amended: a cleanup step none of whose calls failed has deleted every
\* registration whose URL equals the callback URL; whether or not a call
\* failed, it deletes only registrations of its listing whose URL equals the
\* callback URL, and no registration whose URL differs.
C10_CleanupDeletesStaleOnly ==
    /\ (pc = "register" /\ ~cleanup_failed) =>
          /\ Stale = {}
          /\ \A wh \in Listed : wh.url = Callback => wh.id \in Deleted
    /\ \A id \in Deleted : \E wh \in Listed : wh.id = id /\ wh.url = Callback
    /\ \A wh \in Listed : wh.url # Callback =>
          wh.id \notin Deleted /\ wh \in registrations

C10_Witness ==
    /\ pc = "register"
    /\ ~cleanup_failed
    /\ Cardinality(Deleted) = 2
    /\ \E wh \in Listed : wh.url # Callback

-----------------------------------------------------------------------------
(* Claims about the broker consumer (specification WorkerSpec). *)

Range(seq) == {seq[i] : i \in DOMAIN seq}

\* what the body of routed message id is
BodyOf(id)      == routed[id].body
Undecodable(id) == ~BodyOf(id).utf8 \/ ~BodyOf(id).json \/ BodyOf(id).v.t # "object"
EventIn(id)     == Get(BodyOf(id).v.f, "event", JStr("unknown"))
DataIn(id)      == Get(BodyOf(id).v.f, "data", JDict(EmptyDict))
IsCreated(id)   == ~Undecodable(id) /\ EventIn(id) = JStr("task.created")
HasTaskId(id)   == DataIn(id).t = "object" /\ task_id_of(DataIn(id)) # None
Actionable(id)  == IsCreated(id) /\ HasTaskId(id) /\ agent_api_key

\* the number of times the Processing Function was invoked for the deliveries of log
RECURSIVE Invocations(_)
Invocations(log) ==
    IF log = <<>> THEN 0 ELSE Len(Head(log).invoked) + Invocations(Tail(log))

CreatedIn(log)    == Cardinality({i \in DOMAIN log : IsCreated(log[i].id)})
ActionableIn(log) == Cardinality({i \in DOMAIN log : Actionable(log[i].id)})

\* the places message id waits in or is held at
Ready(id)   == {q \in DOMAIN queues : id \in Range(queues[q])}
Holders(id) == {w \in Workers : id \in Range(unacked[w])}
Settled(id) == {i \in DOMAIN handled : handled[i].id = id}

\* C11 (as stated): when exactly one of the events delivered so far is
\* task.created, the Processing Function has been invoked exactly once, and the
\* events of another kind caused no invocation and no task-API call.
C11_OneCreatedOneInvocation ==
    /\ CreatedIn(handled) = 1 => Invocations(handled) = 1
    /\ \A i \in DOMAIN handled :
          ~IsCreated(handled[i].id) =>
              handled[i].invoked = <<>> /\ handled[i].api_calls = <<>>

\* C11 (amended): when exactly one of the events delivered so far is
\* task.created, the Processing Function has been invoked at most once: once
\* when that event's data is an object with a non-empty id or task_id and the
\* task-API key is configured, not at all otherwise; the events of another
\* kind caused no invocation and no task-API call.
C11_OneCreatedAtMostOneInvocation ==
    /\ CreatedIn(handled) = 1 =>
          /\ Invocations(handled) = ActionableIn(handled)
          /\ Invocations(handled) <= 1
    /\ \A i \in DOMAIN handled :
          ~IsCreated(handled[i].id) =>
              handled[i].invoked = <<>> /\ handled[i].api_calls = <<>>

C11_Witness ==
    /\ Len(handled) = 2
    /\ CreatedIn(handled) = 1
    /\ ~Undecodable(handled[1].id) /\ ~IsCreated(handled[1].id)
    /\ Invocations(handled) = 1

\* C12: every message a consumer has handled was acknowledged, not rejected,
\* was settled once, and is neither back in a queue nor held by a worker,
\* whatever happened while it was handled.
C12_AckedExactlyOnce ==
    \A i \in DOMAIN handled :
        /\ handled[i].settle = "ack"
        /\ Settled(handled[i].id) = {i}
        /\ Ready(handled[i].id) = {} /\ Holders(handled[i].id) = {}

C12_Witness ==
    /\ \E i \in DOMAIN handled : handled[i].exc # "none"
    /\ \E i \in DOMAIN handled :
          handled[i].invoked # <<>> /\ handled[i].api_calls = <<>>

\* C13: a message whose body does not decode into an (event, data) pair is
\* acknowledged and dropped: no Processing Function invocation, no task-API
\* call, no redelivery.
C13_UndecodableAckedAndDropped ==
    \A i \in DOMAIN handled :
        Undecodable(handled[i].id) =>
            /\ handled[i].settle = "ack"
            /\ handled[i].invoked = <<>> /\ handled[i].api_calls = <<>>
            /\ Ready(handled[i].id) = {} /\ Holders(handled[i].id) = {}

C13_Witness ==
    /\ \E i \in DOMAIN handled : ~BodyOf(handled[i].id).json
    /\ \E i \in DOMAIN handled :
          BodyOf(handled[i].id).json /\ Undecodable(handled[i].id)

\* C14: a task.created event whose data has neither an id nor a task_id
\* causes no Processing Function invocation and no task-API call, and its
\* message is acknowledged.
C14_NoTaskIdDropped ==
    \A i \in DOMAIN handled :
        (IsCreated(handled[i].id) /\ DataIn(handled[i].id).t = "object"
            /\ "id" \notin DOMAIN DataIn(handled[i].id).o
            /\ "task_id" \notin DOMAIN DataIn(handled[i].id).o) =>
            /\ handled[i].exc = "none"
            /\ handled[i].invoked = <<>> /\ handled[i].api_calls = <<>>
            /\ handled[i].settle = "ack"

C14_Witness ==
    \E i \in DOMAIN handled :
        /\ IsCreated(handled[i].id) /\ DataIn(handled[i].id).t = "object"
        /\ ~HasTaskId(handled[i].id)
        /\ agent_api_key

\* C15: a worker holds at most one delivered message that is not yet
\* acknowledged.
C15_OneUnackedPerWorker ==
    \A w \in Workers : Len(unacked[w]) <= 1

C15_Witness ==
    \E w \in Workers :
        /\ Len(unacked[w]) = 1
        /\ queues[consumers[w].queue] # <<>>
        /\ \A v \in Workers : consumers[v].running => v = w

\* C16: a routed message is held by at most one worker at a time and is
\* processed by one worker only.
C16_OneWorkerPerMessage ==
    \A id \in DOMAIN routed :
        /\ Cardinality(Holders(id)) <= 1
        /\ Cardinality(Settled(id)) <= 1
        /\ Holders(id) # {} => Settled(id) = {} /\ Ready(id) = {}

C16_Witness ==
    /\ \A w \in Workers : consumers[w].running
    /\ Len(handled) = 2
    /\ handled[1].worker # handled[2].worker

-----------------------------------------------------------------------------
(* Claims about the startup orchestrator (specifications StartupSpec and  *)
(* StartupFair).                                                           *)

SignupAttempted == runs > 0 \/ calls # <<>>
SecretReturned  == pc = "returned" /\ result # None
Retryable       == raised = "401" /\ runs < max_retries

\* C17: signup is attempted only after a health check succeeded, the
\* publisher is created and connected only after signup returned a secret,
\* which the receiver then holds, and requests are handled only by a server
\* whose publisher has connected.
C17_StartupOrder ==
    /\ SignupAttempted => health_ok
    /\ (publisher \/ pub_connection # "none" \/ pub_exchange) =>
          SecretReturned /\ webhook_secret = result
    /\ stage = "serving" => connect_returned /\ pub_exchange /\ pub_connection = "open"
    /\ request # None => connect_returned /\ stage \in {"serving", "stopped"}

C17_Witness ==
    /\ stage = "serving"
    /\ \E rs \in response : rs.published # <<>>

\* C18: the polling loop makes at most max_retries health requests, stops at
\* the first success, ends the process with exit code 1 and without a signup
\* attempt when every request failed, and always comes to an end.
C18_HealthPollingTerminates ==
    /\ [](health_requests <= max_retries)
    /\ [](stage = "wait" => ~health_ok)
    /\ []((stage # "wait" /\ ~health_ok) =>
            /\ stage = "exited" /\ exit_code = Some(1)
            /\ health_requests = max_retries
            /\ ~SignupAttempted)
    /\ <>(stage # "wait")

C18_Witness ==
    /\ stage = "exited"
    /\ ~health_ok
    /\ health_requests = max_retries
    /\ max_retries > 1

\* C19: there are at most max_retries signup attempts; a new attempt follows
\* a failed one only after a 401 with attempts remaining; the process ends
\* with a non-zero exit code after any other failure or a 401 on the last
\* attempt; the app is created and served only with the secret a successful
\* attempt returned.
C19_SignupRetryOn401Only ==
    /\ runs <= max_retries
    /\ (stage = "signup" /\ pc = "idle" /\ runs > 0) => Retryable
    /\ (stage = "exited" /\ health_ok /\ ~publisher) =>
          /\ pc = "raised" /\ ~Retryable
          /\ exit_code # None /\ exit_code # Some(0)
    /\ stage \in {"app", "serving", "stopped"} =>
          SecretReturned /\ webhook_secret = result /\ raised = "none"

C19_Witness ==
    /\ stage = "serving"
    /\ runs > 1
    /\ completed = 1

-----------------------------------------------------------------------------
(* A claim about the publisher (specification Spec). *)

\* C20: a request that reaches publish on a publisher whose connect() has not
\* returned gets the RuntimeError of publish, and nothing is sent.
C20_PublishBeforeConnectIsError ==
    \A rq \in request : \A rs \in response :
        (publisher /\ ~connect_returned /\ Authenticated(rq) /\ Parsed(rq)
            /\ PayloadOf(rq).t = "object" /\ Routable(rq)) =>
            rs.exc = "RuntimeError" /\ rs.published = <<>>

-----------------------------------------------------------------------------
(* Claims about workers that end (specifications FailoverSpec, FailoverFair). *)

\* message id was sent with a routing key the queue's binding matches
Queued(id) == id \in DOMAIN routed /\ topic_matches(routed[id].routing_key)
\* a worker acknowledged message id
Acked(id)  == \E i \in DOMAIN handled : handled[i].id = id /\ handled[i].settle = "ack"

\* every message the queue accepted so far has been acknowledged
AllAcked   == \A id \in DOMAIN routed : Queued(id) => Acked(id)

\* the task id and the description of routed message id, as process_message
\* reads them from its data
TaskIdIn(id)      == Value(task_id_of(DataIn(id)))
DescriptionIn(id) == Get(DataIn(id).o, "description", "")
\* the work product the Processing Function returns for a description
ResultFor(description) == execute_worker_agent(description, TRUE).text

\* C23 (as stated): for a handled task.created message with a task id the
\* Processing Function was invoked once with the payload's description, and
\* when it succeeded a comment carrying its result was added to that task and
\* then the task was moved to done.
C23_CommentThenDone ==
    \A i \in DOMAIN handled :
        (IsCreated(handled[i].id) /\ HasTaskId(handled[i].id)) =>
            /\ Len(handled[i].invoked) = 1
            /\ handled[i].invoked[1].description = DescriptionIn(handled[i].id)
            /\ handled[i].invoked[1].exc = "none" =>
                  /\ Len(handled[i].api_calls) = 2
                  /\ handled[i].api_calls[1] =
                        [op |-> "POST /tasks/{id}/comments",
                         task |-> TaskIdIn(handled[i].id),
                         content |-> ResultFor(DescriptionIn(handled[i].id)),
                         ok |-> TRUE]
                  /\ handled[i].api_calls[2] =
                        [op |-> "POST /tasks/{id}/move",
                         task |-> TaskIdIn(handled[i].id),
                         table |-> "done", ok |-> TRUE]

\* C23 (amended): for a handled task.created message with a task id, a worker
\* whose task-API key is configured invoked the Processing Function once with
\* the payload's description (the empty string when there is none) and a
\* worker without the key did not invoke it; when the Processing Function
\* succeeded, the first task-API call posted a comment carrying its result to
\* that task; when that call succeeded, the second and last call moved the
\* task to done; a step that failed was the last one.
C23_CommentThenDoneWhileStepsSucceed ==
    \A i \in DOMAIN handled :
        (IsCreated(handled[i].id) /\ HasTaskId(handled[i].id)) =>
            LET did  == handled[i]
                id   == did.id
                api == did.api_calls
            IN  /\ ~agent_api_key => did.invoked = <<>> /\ api = <<>>
                /\ agent_api_key =>
                      /\ Len(did.invoked) = 1
                      /\ did.invoked[1].description = DescriptionIn(id)
                      /\ did.invoked[1].exc # "none" => api = <<>>
                      /\ did.invoked[1].exc = "none" =>
                            /\ Len(api) \in {1, 2}
                            /\ api[1].op = "POST /tasks/{id}/comments"
                            /\ api[1].task = TaskIdIn(id)
                            /\ api[1].content = ResultFor(DescriptionIn(id))
                            /\ Len(api) = 2 <=> api[1].ok
                            /\ Len(api) = 2 =>
                                  /\ api[2].op = "POST /tasks/{id}/move"
                                  /\ api[2].task = TaskIdIn(id)
                                  /\ api[2].table = "done"

C23_Witness ==
    \E i \in DOMAIN handled :
        /\ IsCreated(handled[i].id) /\ HasTaskId(handled[i].id)
        /\ DescriptionIn(handled[i].id) # ""
        /\ Len(handled[i].invoked) = 1 /\ handled[i].invoked[1].exc = "none"
        /\ Len(handled[i].api_calls) = 2
        /\ handled[i].api_calls[2].ok

\* a one-shot run handled its message successfully: no step raised, the
\* Processing Function did not fail and no task-API call failed
HandledSuccessfully(ran) ==
    /\ ran.failed = "none"
    /\ \A i \in DOMAIN ran.invoked : ran.invoked[i].exc = "none"
    /\ \A i \in DOMAIN ran.api_calls : ran.api_calls[i].ok

\* C24: a one-shot process that ended made one run, with exit code 0 when the
\* message was handled successfully and with exit code 1 when handling ended
\* in an error.
C24_ExitCodeTellsOutcome ==
    oneshot_exit # None =>
        /\ oneshot_did # None
        /\ Value(oneshot_exit) =
              IF HandledSuccessfully(Value(oneshot_did)) THEN 0 ELSE 1

\* the event kind and the data of a request with a JSON object as its body:
\* the body's member when it has one; otherwise the X-Webhook-Event header
\* (absent or empty: "unknown"), and the empty object
KindNamed(rq) ==
    LET f == PayloadOf(rq).f
    IN  IF "event" \in DOMAIN f THEN f["event"]
        ELSE IF rq.x_webhook_event \notin {None, Some("")}
        THEN JStr(Value(rq.x_webhook_event))
        ELSE JStr("unknown")
DataNamed(rq) ==
    LET f == PayloadOf(rq).f
    IN  IF "data" \in DOMAIN f THEN f["data"] ELSE JDict(EmptyDict)

\* C26: for a request that passed authentication with a JSON object as body,
\* the receiver's event kind is the body's event member when there is one,
\* otherwise the X-Webhook-Event header, otherwise "unknown", and its data is
\* the body's data member, by default the empty object; what it publishes, it
\* publishes under that event kind.
C26_EventAndDataExtraction ==
    \A rq \in request : \A rs \in response :
        (Authenticated(rq) /\ Parsed(rq) /\ PayloadOf(rq).t = "object") =>
            /\ event_of(PayloadOf(rq), rq.x_webhook_event) = KindNamed(rq)
            /\ data_of(PayloadOf(rq)) = DataNamed(rq)
            /\ \A k \in DOMAIN rs.published :
                  rs.published[k].routing_key = KindNamed(rq).s
            /\ (/\ publisher /\ rs.exc = "none"
                /\ KindNamed(rq).t = "str" /\ KindNamed(rq).s \in TASK_EVENTS)
               => Len(rs.published) = 1

\* a body without an event member is published under the header's event kind
C26_Witness ==
    \E rq \in request : \E rs \in response :
        /\ Authenticated(rq) /\ Parsed(rq) /\ PayloadOf(rq).t = "object"
        /\ "event" \notin DOMAIN PayloadOf(rq).f
        /\ rq.x_webhook_event = Some("task.created")
        /\ Len(rs.published) = 1
        /\ rs.published[1].routing_key = "task.created"

\* C27: a request is verified on its raw body before its JSON is parsed: with
\* a secret configured, a request whose signature does not verify gets 401
\* whether or not its body is well-formed JSON, never the 400 of a malformed
\* body; and a request publishes only after it passed both the verification
\* and the parsing.
C27_VerifiedThenParsedThenRouted ==
    \A rq \in request : \A rs \in response :
        /\ (TruthySecret(webhook_secret) /\ ~Verifies(rq)) => rs.status = 401
        /\ rs.status = 400 => Authenticated(rq) /\ ~Parsed(rq)
        /\ rs.published # <<>> => Authenticated(rq) /\ Parsed(rq)

\* C28: for every message a request got published, the consumer's
\* parse_payload decodes from its body the event kind it was published under
\* and the data the receiver extracted from the request.
C28_EnvelopePreserved ==
    \A rq \in request : \A rs \in response :
        \A k \in DOMAIN rs.published :
            LET decoded == parse_payload(rs.published[k].body)
            IN  /\ decoded.exc = "none"
                /\ decoded.event = JStr(rs.published[k].routing_key)
                /\ decoded.data = data_of(PayloadOf(rq))

\* the task-API calls of kind op that succeeded while message id was processed
CallsFor(id, op) ==
    {<<i, k>> \in (DOMAIN handled) \X (1 .. 2) :
        /\ handled[i].id = id
        /\ k \in DOMAIN handled[i].api_calls
        /\ handled[i].api_calls[k].op = op
        /\ handled[i].api_calls[k].ok}

\* C30: once a task.created message is acknowledged, however often it was
\* delivered, its task carries exactly one comment of the worker and was
\* moved to done.
C30_IdempotentUnderRedelivery ==
    \A id \in DOMAIN routed :
        (Acked(id) /\ Actionable(id)) =>
            /\ Cardinality(CallsFor(id, "POST /tasks/{id}/comments")) = 1
            /\ CallsFor(id, "POST /tasks/{id}/move") # {}

\* C31: a receiver created without a secret (None) accepts a request that
\* has no signature header; a receiver created with any other secret value
\* rejects a request whose signature header is absent or does not verify: the
\* request is not answered 200 and publishes nothing.
C31_SkippedOnlyWithoutSecret ==
    \A rq \in request : \A rs \in response :
        /\ webhook_secret = None => rs.status # 401
        /\ (webhook_secret # None /\ ~Verifies(rq)) =>
              rs.status # 200 /\ rs.published = <<>>

\* C34: when the Processing Function raised for a message, no task-API call
\* was made for it; when the comment call failed, it was the only call and the
\* task was not moved; in both cases process_message returned normally, the
\* message was acknowledged and is not delivered again, and no step was made
\* a second time.
C34_StopsAtFirstFailure ==
    \A i \in DOMAIN handled :
        LET did == handled[i]
            pf_failed      == did.invoked # <<>> /\ did.invoked[1].exc # "none"
            comment_failed == did.api_calls # <<>> /\ ~did.api_calls[1].ok
        IN  /\ pf_failed => did.api_calls = <<>>
            /\ comment_failed =>
                  /\ did.api_calls[1].op = "POST /tasks/{id}/comments"
                  /\ Len(did.api_calls) = 1
            /\ (pf_failed \/ comment_failed) =>
                  /\ did.exc = "none" /\ did.settle = "ack"
                  /\ Len(did.invoked) = 1
                  /\ Settled(did.id) = {i}
                  /\ Ready(did.id) = {} /\ Holders(did.id) = {}

\* a message whose Processing Function raised and one whose comment call failed
C34_Witness ==
    /\ \E i \in DOMAIN handled :
          handled[i].invoked # <<>> /\ handled[i].invoked[1].exc # "none"
    /\ \E i \in DOMAIN handled :
          handled[i].api_calls # <<>> /\ ~handled[i].api_calls[1].ok

\* the registrations at the task API for the callback URL
Active == {r \in registrations : r.url = Callback}

\* C32: once the signup runs of two receiver processes with the same callback
\* URL have both finished, at most one registration exists for that URL.
C32_NoDuplicateRegistrations ==
    (\A p \in Receivers : peers[p].pc = "serving") => Cardinality(Active) <= 1

\* C33: the secret a serving receiver verifies with is the secret of a
\* registration that is active at the task API for its callback URL.
C33_ServingSecretIsActive ==
    \A p \in Receivers :
        peers[p].pc = "serving" =>
            \E r \in Active : peers[p].secret = Some(r.secret)

\* the durable queue of the task events exists and is bound with task.#
TopologyExists == queue_name("w1") \in DOMAIN queues

Quiescent ==
    /\ \A i \in DOMAIN outbox : outbox[i].posted
    /\ \A q \in DOMAIN queues : queues[q] = <<>>
    /\ \A w \in Workers : unacked[w] = <<>>

\* C29: with the task API emitting a webhook for every task event, those of
\* the worker's own comment and move included, one task created from outside
\* never leads to more than one invocation of the Processing Function nor to
\* more than the three events created, commented and moved; once nothing is
\* left to do, the Processing Function was invoked exactly once and every
\* message published was acknowledged.
C29_NoFeedbackLoop ==
    /\ Invocations(handled) <= 1
    /\ Len(outbox) <= 3
    /\ Len(routed) <= Len(outbox)
    /\ (outbox # <<>> /\ Quiescent) =>
          /\ Invocations(handled) = 1
          /\ Len(routed) = Len(outbox)
          /\ AllAcked

C29_Witness ==
    /\ Quiescent
    /\ Len(routed) = 3
    /\ routed[3].routing_key = "task.moved"
    /\ Invocations(handled) = 1

\* C21: a delivery that a worker held when it got its termination signal was
\* acknowledged before the process exited.
C21_NoUnackedAtExit ==
    \A i \in DOMAIN handled :
        handled[i].end = "shutdown" => handled[i].settle = "ack"

\* C22: a message the queue accepted is ready in the queue or held by a
\* worker until a worker has acknowledged it; when a worker's process ends,
\* the deliveries it held are back in the queue; and when some worker keeps
\* running, every such message is eventually acknowledged.
C22_AtLeastOnce ==
    /\ [](\A id \in DOMAIN routed :
            Queued(id) => Ready(id) # {} \/ Holders(id) # {} \/ Acked(id))
    /\ [][\A w \in Workers :
            (consumers[w].running /\ ~consumers'[w].running) =>
                \A id \in Range(unacked[w]) :
                    id \in Range(queues'[consumers[w].queue])]_vars
    /\ <>[](\E w \in Workers : consumers[w].running) => <>[]AllAcked

C22_Witness ==
    \E i \in DOMAIN handled :
        /\ handled[i].end = "crashed"
        /\ handled[i].settle = "none"
        /\ Acked(handled[i].id)

====
